---- MODULE Spec2Model ----
(***************************************************************************)
(* PrismScene (src/script.js, initPrismScene): the frame loop, the quality *)
(* governor, the event handlers and the 2D ray tracer of the hero canvas.  *)
(*                                                                         *)
(* Three specifications share this module.                                 *)
(*   Spec      the life cycle: init, frames, FPS monitor, visibility,      *)
(*             resize, reduced-motion changes, pointer and teardown.       *)
(*   SpecTrace section 6 of render: the spectral bands and the recursive   *)
(*             traceSpectralRay, one call per step.                        *)
(*   SpecHull  intersectRayHull and intersectRaySegment on an integer grid,*)
(*             with exact rational arithmetic.                             *)
(* Times are milliseconds of performance.now().  Alpha values are fixed    *)
(* point, AlphaOne standing for 1.0.                                       *)
(***************************************************************************)
EXTENDS Integers, Sequences, FiniteSets, TLC

\* ------------------------------------------------------------------ bounds
\* The clock runs from 0 to MaxTicks * TickMs.
MaxTicks == 2
\* Frames counted in one FPS window before the model stops adding frames.
FrameCap == 26

\* ------------------------------------------------------- program constants
FpsWindowMs == 1000
FpsThreshold == 25
ResizeDebounceMs == 150
MinWidth == 320
MaxWidth == 3840
MinHeight == 480
MaxHeight == 2160
MobileBreakpoint == 768

\* One clock step is one FPS window long.
TickMs == FpsWindowMs

TierNames == {"HIGH", "MEDIUM", "LOW", "MINIMAL"}

QualityTier ==
    [HIGH    |-> [maxBounces |-> 4, starCount |-> 250, dustCount |-> 100,
                  subdivisions |-> 2, smokeEnabled |-> TRUE],
     MEDIUM  |-> [maxBounces |-> 3, starCount |-> 100, dustCount |-> 50,
                  subdivisions |-> 1, smokeEnabled |-> TRUE],
     LOW     |-> [maxBounces |-> 2, starCount |-> 50, dustCount |-> 25,
                  subdivisions |-> 1, smokeEnabled |-> FALSE],
     MINIMAL |-> [maxBounces |-> 1, starCount |-> 25, dustCount |-> 0,
                  subdivisions |-> 0, smokeEnabled |-> FALSE]]

\* Position of a tier in the order HIGH > MEDIUM > LOW > MINIMAL.
TierRank(t) ==
    CASE t = "HIGH" -> 3 [] t = "MEDIUM" -> 2 [] t = "LOW" -> 1 [] OTHER -> 0

\* A faulty variant of detectQualityTier that gives LOW to every small
\* viewport, mobile or not, which C20 must reject.
detectQualityTier_smallIsLow(isMobile, innerWidth, prefersReducedMotion) ==
    LET isSmallViewport == innerWidth < MobileBreakpoint IN
    IF prefersReducedMotion THEN "MINIMAL"
    ELSE IF isSmallViewport THEN "LOW"
    ELSE IF isMobile THEN "MEDIUM"
    ELSE "HIGH"

detectQualityTier(isMobile, innerWidth, prefersReducedMotion) ==
    LET isSmallViewport == innerWidth < MobileBreakpoint IN
    IF prefersReducedMotion THEN "MINIMAL"
    ELSE IF isMobile /\ isSmallViewport THEN "LOW"
    ELSE IF isMobile THEN "MEDIUM"
    ELSE "HIGH"

\* The listeners init() registers, by event name.
InitListeners ==
    {"resize", "mousemove", "touchstart", "touchmove", "touchend",
     "touchcancel", "visibilitychange", "reducedMotionChange"}

\* Container rectangles the layout can report, <<width, height>>, and the
\* viewport widths, for the life cycle specification.
ContainerSizes == {<<800, 600>>}
InnerWidths == {400, 1280}
\* Client positions of pointer and touch events, and the fingers that touch.
PointerPositions == {<<100, 100>>}
FingerIds == {0}

NoTimer == -1
NULL == 0
\* touchState.identifier when no touch is tracked (null); Touch identifiers
\* are 0 and up.
NoIdentifier == -1

\* Spring constants.  SPRING_DT is in milliseconds (0.016 s); spring
\* positions are in 1/SpringUnit pixels, velocities in 1/SpringUnit pixels
\* per second.
SPRING_MASS == 2
SPRING_STIFFNESS == 80
SPRING_DAMPING == 18
SPRING_DT == 16
SpringUnit == 10 * 100

VARIABLES
    \* --- scene state (closure variables of initPrismScene)
    currentTierName,    \* name of the active quality tier
    currentQuality,     \* QualityTier[currentTierName]
    meshSubdiv,         \* subdivision level VERTS/FACES were generated at
    stars, dust,        \* sizes of the two particle pools
    width, height,      \* CSS size of the canvas
    mouseX, mouseY,     \* raw pointer target
    touchState,         \* [active, identifier]
    animationFrameId,   \* id of the last frame request, NULL when none
    isPageVisible,
    fpsMonitor,         \* [frameCount, lastCheck, downgraded]
    resizeTimeout,      \* TRUE once a debounce timer handle is stored
    springX, springY,   \* [pos, vel]; smoothMouseX/Y are their pos
    \* --- environment
    now,                \* performance.now()
    pendingFrames,      \* frame requests the browser holds
    timerDue,           \* due time of the pending debounce timer, or NoTimer
    docHidden,          \* document.hidden
    reducedMotion,      \* (prefers-reduced-motion: reduce).matches
    listeners,          \* event names with a PrismScene listener attached
    fingers,            \* touch points that are down, in the order they started
    \* --- history
    tornDown,           \* the beforeunload cleanup has run
    hiddenInWindow,     \* time passed while paused since fpsMonitor.lastCheck
    fpsDowngrades,      \* calls of downgradeQuality made by the FPS monitor
    last,               \* what the step just taken did: [by, info], see Note
    lastResizeAt,       \* time of the last resize event not yet handled, or NoTimer
    \* --- section 6 of render (SpecTrace)
    trPc,               \* "idle", "bands", "trace" or "dust"
    globalAlpha,        \* fixed point, AlphaOne = 1.0
    entryHit,           \* the primary ray hit the hull in this frame
    sp,                 \* index of the spectral band in the loop
    depth,              \* depth argument of the running traceSpectralRay call
    currentAlpha,       \* currentAlpha argument of that call
    activeBeams,        \* length of the frame's activeBeams list
    bandBeams,          \* segments traceSpectralRay pushed for band sp
    traceFrames,        \* frames traced so far
    met,                \* what the tracer step just taken met, "" if nothing
    mainBeam,           \* the main white beam was drawn in this frame
    \* --- intersectRayHull (SpecHull)
    hullQuery,          \* [origin, dir, hull, ignoreIndex]
    hullAnswer,         \* [status |-> "pending"], or what the call returned
    \* --- startup (SpecStartup)
    page,               \* [canvas, context, warnings, fallback, started]
    \* --- detectQualityTier (SpecTier)
    tierQuery,          \* [isMobile, innerWidth, prefersReducedMotion]
    tierAnswer,         \* "pending", or the tier name returned
    \* --- generateGeometry (SpecMesh)
    subdivisionLevel,   \* the argument of generateGeometry
    passes,             \* s: subdivide passes completed
    mesh,               \* [v, f]: vertex count and list of faces
    newVerts,           \* length of newVerts in the running subdivide
    newFaces,           \* newFaces of the running subdivide
    midPointCache,      \* edge key -> index of its midpoint
    faceIndex,          \* f: index of the face the loop of subdivide is at
    before,             \* [v, f, e] of the mesh the last pass was given
    \* --- getConvexHull (SpecConvex)
    points,             \* the argument of getConvexHull
    convexHull,         \* [status |-> "pending"], or [status |-> "done", hull]
    \* --- refract2D (SpecRefract)
    refractQuery,       \* [dir, normal, n1, n2]
    refractAnswer,      \* [status |-> "pending"], Null, or [status |-> "dir", v, l]
    \* --- page interactions (SpecPage)
    expanded,           \* service items carrying the class is-expanded
    hovered,            \* service items carrying the class is-hovered
    ariaExpanded,       \* service items whose aria-expanded is 'true'
    played,             \* service items whose _expandTl was played last
    currentlyExpanded,  \* the item toggleServiceItem remembers, NULL if none
    toggleActive,       \* .mobile-menu-toggle carries the class active
    overlayActive,      \* #mobileMenuOverlay carries the class active
    bodyOverflow,       \* document.body.style.overflow
    navItemActive       \* .mobile-nav-item of the dropdown carries active

tierVars == <<currentTierName, currentQuality, meshSubdiv>>
poolVars == <<stars, dust>>
sizeVars == <<width, height>>
pointerVars == <<mouseX, mouseY, touchState>>
loopVars == <<animationFrameId, isPageVisible, fpsMonitor>>
springVars == <<springX, springY>>
sceneVars ==
    <<tierVars, poolVars, sizeVars, pointerVars, springVars, loopVars,
      resizeTimeout>>
envVars ==
    <<now, pendingFrames, timerDue, docHidden, reducedMotion, listeners, fingers>>
histVars == <<tornDown, hiddenInWindow, fpsDowngrades, last, lastResizeAt>>
lifeVars == <<sceneVars, envVars, histVars>>
traceVars ==
    <<trPc, globalAlpha, entryHit, sp, depth, currentAlpha, activeBeams,
      bandBeams, traceFrames, met, mainBeam>>
hullVars == <<hullQuery, hullAnswer>>
startVars == <<page>>
detectVars == <<tierQuery, tierAnswer>>
geomVars == <<subdivisionLevel, passes, mesh, newVerts, newFaces, midPointCache,
              faceIndex, before>>
convexVars == <<points, convexHull>>
refractVars == <<refractQuery, refractAnswer>>
accordionVars == <<expanded, hovered, ariaExpanded, played, currentlyExpanded>>
menuVars == <<toggleActive, overlayActive, bodyOverflow, navItemActive>>
pageVars == <<accordionVars, menuVars>>
pureVars == <<geomVars, convexVars, refractVars, pageVars>>
vars == <<lifeVars, traceVars, hullVars, startVars, detectVars, pureVars>>

\* History of one step.  by is "init", "fps" (the FPS monitor called
\* downgradeQuality), "latched" (a sample below the threshold found the latch
\* set), "reducedMotion" (the listener regenerated for MINIMAL), "resume" (the
\* loop was re-armed) or "none"; info is the tier before the step, for
\* "resume" whether time had passed while paused.
Note(by, info) == [by |-> by, info |-> info]
NoNote == Note("none", "")

Min(a, b) == IF a < b THEN a ELSE b
Max(a, b) == IF a > b THEN a ELSE b

\* requestAnimationFrame: the browser hands out an id that is neither pending
\* nor the one the scene still holds (ids are never reused while known).
FreshFrameId(held, pending) ==
    CHOOSE i \in 1..(Cardinality(pending) + 2) : i \notin pending /\ i # held

\* ------------------------------------------------------------ construction
\* The state init() leaves: tier detected, mesh and pools built, pointer at
\* the centre, listeners attached, first frame requested.
init(isMobile, innerWidth, prm, sz) ==
    LET tn == detectQualityTier(isMobile, innerWidth, prm) IN
    /\ currentTierName = tn
    /\ currentQuality = QualityTier[tn]
    /\ meshSubdiv = QualityTier[tn].subdivisions
    /\ stars = QualityTier[tn].starCount
    /\ dust = QualityTier[tn].dustCount
    /\ width = sz[1] /\ height = sz[2]
    /\ mouseX = sz[1] \div 2 /\ mouseY = sz[2] \div 2
    /\ touchState = [active |-> FALSE, identifier |-> NoIdentifier]
    /\ springX = [pos |-> (sz[1] \div 2) * SpringUnit, vel |-> 0]
    /\ springY = [pos |-> (sz[2] \div 2) * SpringUnit, vel |-> 0]
    /\ animationFrameId = 1
    /\ isPageVisible = TRUE
    /\ fpsMonitor = [frameCount |-> 0, lastCheck |-> 0, downgraded |-> FALSE]
    /\ resizeTimeout = FALSE
    /\ now = 0
    /\ pendingFrames = {1}
    /\ timerDue = NoTimer
    /\ docHidden = FALSE
    /\ reducedMotion = prm
    /\ listeners = InitListeners \cup {"beforeunload"}
    /\ fingers = <<>>
    /\ tornDown = FALSE
    /\ hiddenInWindow = FALSE
    /\ fpsDowngrades = 0
    /\ last = Note("init", tn)
    /\ lastResizeAt = NoTimer

\* What is there before init() and stays when initPrismScene returns early:
\* no tier, no mesh, no pools, no listener, no frame request.
NotConstructed(prm) ==
    /\ currentTierName = "none"
    /\ currentQuality = [maxBounces |-> 0, starCount |-> 0, dustCount |-> 0,
                         subdivisions |-> 0, smokeEnabled |-> FALSE]
    /\ meshSubdiv = 0 /\ stars = 0 /\ dust = 0
    /\ width = 0 /\ height = 0 /\ mouseX = 0 /\ mouseY = 0
    /\ touchState = [active |-> FALSE, identifier |-> NoIdentifier]
    /\ springX = [pos |-> 0, vel |-> 0]
    /\ springY = [pos |-> 0, vel |-> 0]
    /\ animationFrameId = NULL
    /\ isPageVisible = TRUE
    /\ fpsMonitor = [frameCount |-> 0, lastCheck |-> 0, downgraded |-> FALSE]
    /\ resizeTimeout = FALSE
    /\ now = 0
    /\ pendingFrames = {}
    /\ timerDue = NoTimer
    /\ docHidden = FALSE
    /\ reducedMotion = prm
    /\ listeners = {}
    /\ fingers = <<>>
    /\ tornDown = FALSE
    /\ hiddenInWindow = FALSE
    /\ fpsDowngrades = 0
    /\ last = NoNote
    /\ lastResizeAt = NoTimer

\* The state initPrismScene leaves on a page with or without the canvas
\* element, whose getContext('2d') answers a context or null: without the
\* canvas a warning and return; without the context a warning,
\* showFallbackBackground and return; otherwise the scene is set up and
\* init() runs.
initPrismScene(canvas, context, isMobile, innerWidth, prm, sz) ==
    IF ~canvas
    THEN /\ page = [canvas |-> FALSE, context |-> FALSE, warnings |-> 1,
                    fallback |-> FALSE, started |-> FALSE]
         /\ NotConstructed(prm)
    ELSE IF ~context
    THEN /\ page = [canvas |-> TRUE, context |-> FALSE, warnings |-> 1,
                    fallback |-> TRUE, started |-> FALSE]
         /\ NotConstructed(prm)
    ELSE /\ page = [canvas |-> TRUE, context |-> TRUE, warnings |-> 0,
                    fallback |-> FALSE, started |-> TRUE]
         /\ init(isMobile, innerWidth, prm, sz)

\* ------------------------------------------------------------ the governor
\* Faulty variants of downgradeQuality, which C1 and C3 must reject: one
\* that wraps round from MINIMAL to HIGH, one that skips a level.
downgradeQuality_wraps(t) ==
    IF t = "HIGH" THEN "MEDIUM"
    ELSE IF t = "MEDIUM" THEN "LOW"
    ELSE IF t = "LOW" THEN "MINIMAL"
    ELSE "HIGH"

downgradeQuality_skips(t) ==
    IF t = "HIGH" THEN "LOW"
    ELSE IF t = "MEDIUM" THEN "MINIMAL"
    ELSE IF t = "LOW" THEN "MINIMAL"
    ELSE t

\* downgradeQuality: the tier it moves to.
downgradeQuality(t) ==
    IF t = "HIGH" THEN "MEDIUM"
    ELSE IF t = "MEDIUM" THEN "LOW"
    ELSE IF t = "LOW" THEN "MINIMAL"
    ELSE t

\* A faulty variant of the FPS monitoring block that never sets the latch,
\* which C2 must reject.
fpsMonitoring_noLatch(m, t) ==
    LET fc == m.frameCount + 1
        elapsed == t - m.lastCheck
        low == fc * 1000 < FpsThreshold * elapsed
        downgrade == low /\ ~m.downgraded
    IN  IF elapsed >= FpsWindowMs
        THEN [monitor |-> [frameCount |-> 0, lastCheck |-> t,
                           downgraded |-> m.downgraded],
              sampled |-> TRUE, low |-> low, downgrade |-> downgrade]
        ELSE [monitor |-> [m EXCEPT !.frameCount = fc],
              sampled |-> FALSE, low |-> FALSE, downgrade |-> FALSE]

\* The FPS monitoring block of render, on monitor m at time t: the monitor
\* it leaves and whether it calls downgradeQuality.  currentFPS is
\* frameCount * 1000 / elapsed; it is read only by the comparison, which is
\* done here on the exact quotient.
fpsMonitoring(m, t) ==
    LET fc == m.frameCount + 1
        elapsed == t - m.lastCheck
        low == fc * 1000 < FpsThreshold * elapsed
        downgrade == low /\ ~m.downgraded
    IN  IF elapsed >= FpsWindowMs
        THEN [monitor |-> [frameCount |-> 0, lastCheck |-> t,
                           downgraded |-> (m.downgraded \/ downgrade)],
              sampled |-> TRUE, low |-> low, downgrade |-> downgrade]
        ELSE [monitor |-> [m EXCEPT !.frameCount = fc],
              sampled |-> FALSE, low |-> FALSE, downgrade |-> FALSE]

\* A faulty variant of initializeParticles that rebuilds the stars only,
\* which C16 must reject.
initializeParticles_starsOnly(q) ==
    /\ stars' = q.starCount
    /\ dust' = dust

\* initializeParticles(w, h): both pools rebuilt with the counts of quality q.
initializeParticles(q) ==
    /\ stars' = q.starCount
    /\ dust' = q.dustCount

\* The tier becomes tn; generateGeometry(currentQuality.subdivisions) and
\* initializeParticles(width, height) follow, as in downgradeQuality and in
\* the reduced-motion listener.
Regenerate(tn) ==
    /\ currentTierName' = tn
    /\ currentQuality' = QualityTier[tn]
    /\ meshSubdiv' = QualityTier[tn].subdivisions
    /\ initializeParticles(QualityTier[tn])

\* ----------------------------------------------------------------- render
\* One frame callback.  The browser takes request id off its list and calls
\* render; the drawing itself touches none of these variables (the pointer
\* smoothing is smoothPointer, the subject of SpecResize, and section 6, the
\* tracer, is the subject of SpecTrace).
render(id) ==
    /\ id \in pendingFrames
    /\ IF ~isPageVisible
       THEN /\ pendingFrames' = pendingFrames \ {id}
            /\ last' = NoNote
            /\ UNCHANGED <<sceneVars, now, timerDue, docHidden, reducedMotion,
                           listeners, fingers, tornDown, lastResizeAt, hiddenInWindow,
                           fpsDowngrades>>
       ELSE LET r == fpsMonitoring(fpsMonitor, now)
                nid == FreshFrameId(animationFrameId, pendingFrames \ {id})
            IN  /\ \/ fpsMonitor.frameCount < FrameCap
                   \/ now - fpsMonitor.lastCheck >= FpsWindowMs
                /\ fpsMonitor' = r.monitor
                /\ IF r.downgrade
                   THEN /\ Regenerate(downgradeQuality(currentTierName))
                        /\ fpsDowngrades' = fpsDowngrades + 1
                        /\ last' = Note("fps", currentTierName)
                   ELSE /\ UNCHANGED <<tierVars, poolVars, fpsDowngrades>>
                        /\ last' = IF r.low /\ fpsMonitor.downgraded
                                    THEN Note("latched", currentTierName)
                                    ELSE NoNote
                /\ hiddenInWindow' = (hiddenInWindow /\ ~r.sampled)
                /\ animationFrameId' = nid
                /\ pendingFrames' = (pendingFrames \ {id}) \cup {nid}
                /\ UNCHANGED <<sizeVars, springVars, pointerVars, isPageVisible,
                               resizeTimeout, now, timerDue, docHidden,
                               reducedMotion, listeners, fingers, tornDown, lastResizeAt>>

\* A faulty variant of handleVisibilityChange that requests no frame at a
\* resume, which C29 must reject.
handleVisibilityChange_noResume(hidden) ==
    /\ isPageVisible' = ~hidden
    /\ IF hidden /\ animationFrameId # NULL
       THEN /\ pendingFrames' = pendingFrames \ {animationFrameId}
            /\ animationFrameId' = NULL
            /\ last' = NoNote
            /\ UNCHANGED <<fpsMonitor, hiddenInWindow>>
       ELSE /\ last' = IF ~hidden /\ animationFrameId = NULL
                       THEN Note("resume", "brief") ELSE NoNote
            /\ UNCHANGED <<fpsMonitor, hiddenInWindow, animationFrameId,
                           pendingFrames>>

\* ------------------------------------------------------------- visibility
\* Faulty variants of handleVisibilityChange.  The first leaves the frame
\* request alone when the page is hidden (C4 must reject it), the second
\* forgets the request without cancelling it (C5), the third resumes without
\* moving fpsMonitor.lastCheck (C6).
handleVisibilityChange_noCancel(hidden) ==
    /\ isPageVisible' = ~hidden
    /\ IF ~hidden /\ animationFrameId = NULL
       THEN LET nid == FreshFrameId(animationFrameId, pendingFrames) IN
            /\ fpsMonitor' = [fpsMonitor EXCEPT !.lastCheck = now]
            /\ hiddenInWindow' = (hiddenInWindow /\ fpsMonitor'.lastCheck # now)
            /\ animationFrameId' = nid
            /\ pendingFrames' = pendingFrames \cup {nid}
            /\ last' = Note("resume", IF hiddenInWindow THEN "paused" ELSE "brief")
       ELSE /\ last' = NoNote
            /\ UNCHANGED <<fpsMonitor, hiddenInWindow, animationFrameId,
                           pendingFrames>>

handleVisibilityChange_forgets(hidden) ==
    /\ isPageVisible' = ~hidden
    /\ IF ~hidden /\ animationFrameId = NULL
       THEN LET nid == FreshFrameId(animationFrameId, pendingFrames) IN
            /\ fpsMonitor' = [fpsMonitor EXCEPT !.lastCheck = now]
            /\ hiddenInWindow' = (hiddenInWindow /\ fpsMonitor'.lastCheck # now)
            /\ animationFrameId' = nid
            /\ pendingFrames' = pendingFrames \cup {nid}
            /\ last' = Note("resume", IF hiddenInWindow THEN "paused" ELSE "brief")
       ELSE IF hidden /\ animationFrameId # NULL
       THEN /\ animationFrameId' = NULL
            /\ last' = NoNote
            /\ UNCHANGED <<fpsMonitor, hiddenInWindow, pendingFrames>>
       ELSE /\ last' = NoNote
            /\ UNCHANGED <<fpsMonitor, hiddenInWindow, animationFrameId,
                           pendingFrames>>

handleVisibilityChange_staleWindow(hidden) ==
    /\ isPageVisible' = ~hidden
    /\ IF ~hidden /\ animationFrameId = NULL
       THEN LET nid == FreshFrameId(animationFrameId, pendingFrames) IN
            /\ fpsMonitor' = fpsMonitor
            /\ hiddenInWindow' = (hiddenInWindow /\ fpsMonitor'.lastCheck # now)
            /\ animationFrameId' = nid
            /\ pendingFrames' = pendingFrames \cup {nid}
            /\ last' = Note("resume", IF hiddenInWindow THEN "paused" ELSE "brief")
       ELSE IF hidden /\ animationFrameId # NULL
       THEN /\ pendingFrames' = pendingFrames \ {animationFrameId}
            /\ animationFrameId' = NULL
            /\ last' = NoNote
            /\ UNCHANGED <<fpsMonitor, hiddenInWindow>>
       ELSE /\ last' = NoNote
            /\ UNCHANGED <<fpsMonitor, hiddenInWindow, animationFrameId,
                           pendingFrames>>

handleVisibilityChange(hidden) ==
    /\ isPageVisible' = ~hidden
    /\ IF ~hidden /\ animationFrameId = NULL
       THEN LET nid == FreshFrameId(animationFrameId, pendingFrames) IN
            /\ fpsMonitor' = [fpsMonitor EXCEPT !.lastCheck = now]
            /\ hiddenInWindow' = (hiddenInWindow /\ fpsMonitor'.lastCheck # now)
            /\ animationFrameId' = nid
            /\ pendingFrames' = pendingFrames \cup {nid}
            /\ last' = Note("resume", IF hiddenInWindow THEN "paused" ELSE "brief")
       ELSE IF hidden /\ animationFrameId # NULL
       THEN /\ pendingFrames' = pendingFrames \ {animationFrameId}
            /\ animationFrameId' = NULL
            /\ last' = NoNote
            /\ UNCHANGED <<fpsMonitor, hiddenInWindow>>
       ELSE /\ last' = NoNote
            /\ UNCHANGED <<fpsMonitor, hiddenInWindow, animationFrameId,
                           pendingFrames>>

\* The document changes visibility and fires visibilitychange.
VisibilityChange ==
    /\ docHidden' = ~docHidden
    /\ IF "visibilitychange" \in listeners
       THEN handleVisibilityChange(~docHidden)
       ELSE /\ last' = NoNote
            /\ UNCHANGED <<isPageVisible, fpsMonitor, hiddenInWindow,
                           animationFrameId, pendingFrames>>
    /\ UNCHANGED <<tierVars, poolVars, sizeVars, springVars, pointerVars, resizeTimeout,
                   now, timerDue, reducedMotion, listeners, fingers, tornDown, lastResizeAt,
                   fpsDowngrades>>

\* ----------------------------------------------------------------- resize
\* A faulty variant of handleResize that lets a running timer run on instead
\* of starting it again, which C19 must reject.
handleResize_keepsTimer ==
    /\ "resize" \in listeners
    /\ resizeTimeout' = TRUE
    /\ timerDue' = IF timerDue # NoTimer THEN timerDue ELSE now + ResizeDebounceMs
    /\ lastResizeAt' = now
    /\ last' = NoNote
    /\ UNCHANGED <<tierVars, poolVars, sizeVars, springVars, pointerVars,
                   loopVars, now, pendingFrames, docHidden, reducedMotion,
                   listeners, fingers, tornDown, hiddenInWindow, fpsDowngrades>>

\* handleResize: clear the stored timer, start a new one.
handleResize ==
    /\ "resize" \in listeners
    /\ resizeTimeout' = TRUE
    /\ timerDue' = now + ResizeDebounceMs
    /\ lastResizeAt' = now
    /\ last' = NoNote
    /\ UNCHANGED <<tierVars, poolVars, sizeVars, springVars, pointerVars,
                   loopVars, now, pendingFrames, docHidden, reducedMotion,
                   listeners, fingers, tornDown, hiddenInWindow, fpsDowngrades>>

\* The debounce timer fires: the callback handleResize gave to setTimeout,
\* with the container measuring sz.
resizeCallback(sz) ==
    /\ timerDue # NoTimer
    /\ now >= timerDue
    /\ timerDue' = NoTimer
    /\ width' = Max(MinWidth, Min(MaxWidth, sz[1]))
    /\ height' = Max(MinHeight, Min(MaxHeight, sz[2]))
    /\ initializeParticles(currentQuality)
    /\ mouseX' = width' \div 2
    /\ mouseY' = height' \div 2
    /\ springX' = [pos |-> mouseX' * SpringUnit, vel |-> 0]
    /\ springY' = [pos |-> mouseY' * SpringUnit, vel |-> 0]
    /\ lastResizeAt' = NoTimer
    /\ last' = NoNote
    /\ UNCHANGED <<tierVars, touchState, loopVars, resizeTimeout, now,
                   pendingFrames, docHidden, reducedMotion, listeners, fingers,
                   tornDown, hiddenInWindow, fpsDowngrades>>

\* updateSpring(spring, target): one step of F = -kx - bv, the spring it
\* leaves.
updateSpring(spring, target) ==
    LET displacement == spring.pos - target
        springForce == -SPRING_STIFFNESS * displacement
        dampingForce == -SPRING_DAMPING * spring.vel
        totalForce == springForce + dampingForce
        acceleration == totalForce \div SPRING_MASS
        vel == spring.vel + (acceleration * SPRING_DT) \div 1000
    IN  [pos |-> spring.pos + (vel * SPRING_DT) \div 1000, vel |-> vel]

\* The pointer smoothing of one rendered frame: both springs step towards
\* the pointer target.
smoothPointer ==
    /\ isPageVisible
    /\ springX' = updateSpring(springX, mouseX * SpringUnit)
    /\ springY' = updateSpring(springY, mouseY * SpringUnit)
    /\ last' = NoNote
    /\ UNCHANGED <<tierVars, poolVars, sizeVars, pointerVars, loopVars,
                   resizeTimeout, envVars, tornDown, hiddenInWindow,
                   fpsDowngrades, lastResizeAt>>

\* ---------------------------------------------------------- reduced motion
\* A faulty variant of the change listener that leaves the scene alone once
\* the FPS monitor has downgraded, which C8 must reject.
reducedMotionListener_unlessLatched(matches) ==
    IF matches /\ ~fpsMonitor.downgraded
    THEN /\ Regenerate("MINIMAL")
         /\ last' = Note("reducedMotion", currentTierName)
    ELSE /\ last' = NoNote
         /\ UNCHANGED <<tierVars, poolVars>>

\* The change listener init() adds to the media query list.
reducedMotionListener(matches) ==
    IF matches
    THEN /\ Regenerate("MINIMAL")
         /\ last' = Note("reducedMotion", currentTierName)
    ELSE /\ last' = NoNote
         /\ UNCHANGED <<tierVars, poolVars>>

\* The preference flips and the media query list reports the change.
ReducedMotionChange ==
    /\ reducedMotion' = ~reducedMotion
    /\ IF "reducedMotionChange" \in listeners
       THEN reducedMotionListener(~reducedMotion)
       ELSE /\ last' = NoNote
            /\ UNCHANGED <<tierVars, poolVars>>
    /\ UNCHANGED <<sizeVars, springVars, pointerVars, loopVars, resizeTimeout, now,
                   pendingFrames, timerDue, docHidden, listeners, fingers,
                   tornDown, lastResizeAt, hiddenInWindow, fpsDowngrades>>

\* ---------------------------------------------------------------- pointer
\* The canvas rectangle starts at the client origin and is width x height.
Padding == 20

handleMouseMove(p) ==
    /\ "mousemove" \in listeners
    /\ mouseX' = Max(Padding, Min(width - Padding, p[1]))
    /\ mouseY' = Max(Padding, Min(height - Padding, p[2]))
    /\ last' = NoNote
    /\ UNCHANGED <<tierVars, poolVars, sizeVars, springVars, touchState, loopVars,
                   resizeTimeout, envVars, tornDown, lastResizeAt,
                   hiddenInWindow, fpsDowngrades>>

\* handleTouchStart with e.touches = touches (every touch point on the page).
handleTouchStart(touches) ==
    IF touchState.active
    THEN UNCHANGED pointerVars
    ELSE /\ touchState' = [active |-> TRUE, identifier |-> touches[1].identifier]
         /\ mouseX' = touches[1].clientX
         /\ mouseY' = touches[1].clientY

\* Index of the first changed touch carrying the tracked identifier, 0 if none.
TrackedIndex(changed) ==
    LET hits == {i \in 1..Len(changed) :
                    changed[i].identifier = touchState.identifier}
    IN  IF hits = {} THEN 0 ELSE CHOOSE i \in hits : \A j \in hits : i <= j

handleTouchMove(changed) ==
    LET i == TrackedIndex(changed) IN
    IF ~touchState.active \/ i = 0
    THEN UNCHANGED pointerVars
    ELSE /\ mouseX' = Max(Padding, Min(width - Padding, changed[i].clientX))
         /\ mouseY' = Max(Padding, Min(height - Padding, changed[i].clientY))
         /\ UNCHANGED touchState

\* A faulty variant of handleTouchEnd that releases tracking whichever
\* finger is lifted, which C18 must reject.
handleTouchEnd_anyFinger(changed) ==
    IF Len(changed) > 0
    THEN /\ touchState' = [active |-> FALSE, identifier |-> NoIdentifier]
         /\ UNCHANGED <<mouseX, mouseY>>
    ELSE UNCHANGED pointerVars

handleTouchEnd(changed) ==
    IF TrackedIndex(changed) # 0
    THEN /\ touchState' = [active |-> FALSE, identifier |-> NoIdentifier]
         /\ UNCHANGED <<mouseX, mouseY>>
    ELSE UNCHANGED pointerVars

\* A touch point as events carry it.
TouchOf(f) == [identifier |-> f.identifier, clientX |-> f.clientX,
               clientY |-> f.clientY]
Touches(fs) == [i \in 1..Len(fs) |-> TouchOf(fs[i])]
FingerIndex(id) ==
    CHOOSE i \in 1..Len(fingers) : fingers[i].identifier = id
Without(fs, k) == [i \in 1..(Len(fs) - 1) |-> IF i < k THEN fs[i] ELSE fs[i + 1]]

\* Finger id comes down at p, on the canvas or elsewhere on the page.
TouchStart(id, p, onCanvas) ==
    /\ \A i \in 1..Len(fingers) : fingers[i].identifier # id
    /\ fingers' = Append(fingers, [identifier |-> id, clientX |-> p[1],
                                   clientY |-> p[2], onCanvas |-> onCanvas])
    /\ IF onCanvas /\ "touchstart" \in listeners
       THEN handleTouchStart(Touches(fingers'))
       ELSE UNCHANGED pointerVars
    /\ last' = NoNote
    /\ UNCHANGED <<tierVars, poolVars, sizeVars, springVars, loopVars, resizeTimeout, now,
                   pendingFrames, timerDue, docHidden, reducedMotion, listeners, tornDown, lastResizeAt,
                   hiddenInWindow, fpsDowngrades>>

\* Finger id moves to p; the event goes to the element it started on.
TouchMove(id, p) ==
    /\ \E i \in 1..Len(fingers) : fingers[i].identifier = id
    /\ LET k == FingerIndex(id)
           f == [fingers[k] EXCEPT !.clientX = p[1], !.clientY = p[2]]
       IN  /\ fingers' = [fingers EXCEPT ![k] = f]
           /\ IF f.onCanvas /\ "touchmove" \in listeners
              THEN handleTouchMove(<<TouchOf(f)>>)
              ELSE UNCHANGED pointerVars
    /\ last' = NoNote
    /\ UNCHANGED <<tierVars, poolVars, sizeVars, springVars, loopVars, resizeTimeout, now,
                   pendingFrames, timerDue, docHidden, reducedMotion, listeners, tornDown, lastResizeAt,
                   hiddenInWindow, fpsDowngrades>>

\* Finger id is lifted (touchend) or lost (touchcancel).
TouchEnd(id, type) ==
    /\ \E i \in 1..Len(fingers) : fingers[i].identifier = id
    /\ LET k == FingerIndex(id)
           f == fingers[k]
       IN  /\ fingers' = Without(fingers, k)
           /\ IF f.onCanvas /\ type \in listeners
              THEN handleTouchEnd(<<TouchOf(f)>>)
              ELSE UNCHANGED pointerVars
    /\ last' = NoNote
    /\ UNCHANGED <<tierVars, poolVars, sizeVars, springVars, loopVars, resizeTimeout, now,
                   pendingFrames, timerDue, docHidden, reducedMotion, listeners, tornDown, lastResizeAt,
                   hiddenInWindow, fpsDowngrades>>

\* --------------------------------------------------------------- teardown
\* The listeners the beforeunload cleanup removes.
RemovedOnUnload ==
    {"resize", "mousemove", "touchstart", "touchmove", "touchend",
     "touchcancel", "visibilitychange"}

beforeunload ==
    /\ "beforeunload" \in listeners
    /\ pendingFrames' = IF animationFrameId # NULL
                        THEN pendingFrames \ {animationFrameId}
                        ELSE pendingFrames
    /\ listeners' = listeners \ RemovedOnUnload
    /\ tornDown' = TRUE
    /\ last' = NoNote
    /\ UNCHANGED <<sceneVars, now, timerDue, docHidden, reducedMotion, fingers,
                   hiddenInWindow, fpsDowngrades, lastResizeAt>>

\* ------------------------------------------------------------------ clock
Tick ==
    /\ now < MaxTicks * TickMs
    /\ now' = now + TickMs
    /\ hiddenInWindow' = (hiddenInWindow \/ ~isPageVisible)
    /\ last' = NoNote
    /\ UNCHANGED <<sceneVars, pendingFrames, timerDue, docHidden, reducedMotion,
                   listeners, fingers, tornDown, lastResizeAt, fpsDowngrades>>

\* The clock in steps short enough to tell the events of a resize burst
\* apart.
ShortTickMs == ResizeDebounceMs \div 3
\* The clock of the resize specification runs to MaxShortTicks * ShortTickMs.
MaxShortTicks == 8

\* The timer of setTimeout fires when it is due: the clock does not pass a
\* due timer.
ShortTick ==
    /\ now < MaxShortTicks * ShortTickMs
    /\ timerDue = NoTimer \/ now < timerDue
    /\ now' = now + ShortTickMs
    /\ hiddenInWindow' = (hiddenInWindow \/ ~isPageVisible)
    /\ last' = NoNote
    /\ UNCHANGED <<sceneVars, pendingFrames, timerDue, docHidden, reducedMotion,
                   listeners, fingers, tornDown, fpsDowngrades, lastResizeAt>>

\* ------------------------------------------------------- intersectRayHull
\* Vectors and hull points are pairs of integers.  A ray origin is
\* [x, y, q], the point (x/q, y/q) with q > 0, so that origins such as
\* "entry point + 0.1 * direction" stay exact.  A ray parameter t is the
\* fraction num/den with den > 0.
Null == [status |-> "null"]

\* intersectRaySegment(rayOrigin, rayDir, p1, p2).  v1 is kept multiplied by
\* o.q, which makes t1 = n1 / (o.q * d) and t2 = n2 / (o.q * d).  With integer
\* edges and directions Math.abs(d) < 0.00001 is d = 0.
intersectRaySegment(o, dir, p1, p2) ==
    LET v1x == o.x - o.q * p1[1]
        v1y == o.y - o.q * p1[2]
        v2x == p2[1] - p1[1]
        v2y == p2[2] - p1[2]
        v3x == -dir[2]
        v3y == dir[1]
        d == v2x * v3x + v2y * v3y
        s == IF d < 0 THEN -1 ELSE 1
        den == s * d * o.q
        t1 == s * (v2x * v1y - v2y * v1x)
        t2 == s * (v1x * v3x + v1y * v3y)
    IN  IF d = 0 THEN Null
        ELSE IF t1 >= 0 /\ t2 >= 0 /\ t2 <= den
        THEN [status |-> "hit", num |-> t1, den |-> den]
        ELSE Null

\* ignoreIndex = ignoreIndex || -1: every falsy argument, 0 among them,
\* becomes -1.
ignoreIndexOrDefault(i) == IF i = 0 THEN -1 ELSE i

\* The outward normal of edge p1 -> p2 of a hull with vertex sum c and n
\* vertices: (-edge.y, edge.x), turned over when it points to the centre
\* c / n.  norm() only rescales it, so the direction is kept unscaled.
edgeNormal(p1, p2, c, n) ==
    LET nx == -(p2[2] - p1[2])
        ny == p2[1] - p1[1]
        inward == nx * (n * p1[1] - c[1]) + ny * (n * p1[2] - c[2]) < 0
    IN  IF inward THEN <<-nx, -ny>> ELSE <<nx, ny>>

RECURSIVE SumPoints(_, _)
SumPoints(hull, k) ==
    IF k = 0 THEN <<0, 0>>
    ELSE LET r == SumPoints(hull, k - 1)
         IN  <<r[1] + hull[k][1], r[2] + hull[k][2]>>

\* The loop over the edges i .. hull.length - 1 (0-based, as in the code),
\* best being the closest hit kept so far.
RECURSIVE scanEdges(_, _, _, _, _, _)
scanEdges(o, dir, hull, ignore, i, best) ==
    IF i >= Len(hull) THEN best
    ELSE IF i = ignore THEN scanEdges(o, dir, hull, ignore, i + 1, best)
    ELSE LET p1 == hull[i + 1]
             p2 == hull[((i + 1) % Len(hull)) + 1]
             hit == intersectRaySegment(o, dir, p1, p2)
             closer == \/ best.status = "null"
                       \/ hit.num * best.den < best.num * hit.den
             take == /\ hit.status = "hit"
                     /\ closer
                     /\ 1000 * hit.num > hit.den
             found == [status |-> "hit", num |-> hit.num, den |-> hit.den,
                       index |-> i,
                       normal |-> edgeNormal(p1, p2, SumPoints(hull, Len(hull)),
                                             Len(hull))]
         IN  scanEdges(o, dir, hull, ignore, i + 1, IF take THEN found ELSE best)

intersectRayHull(origin, dir, hull, ignoreIndex) ==
    IF Len(hull) = 0 THEN Null
    ELSE scanEdges(origin, dir, hull, ignoreIndexOrDefault(ignoreIndex), 0, Null)

\* Inputs of the calls checked: convex outlines as getConvexHull returns
\* them, ray origins on a grid around them, and directions.
Hulls ==
    {<<>>,
     <<<<0, 0>>, <<4, 0>>, <<4, 4>>, <<0, 4>>>>,
     <<<<0, 0>>, <<6, 0>>, <<3, 5>>>>,
     <<<<1, 4>>, <<3, 0>>, <<5, 4>>>>}
GridCoords == {-2, 1, 2, 3, 7}
Origins == {[x |-> gx, y |-> gy, q |-> 1] : gx \in GridCoords, gy \in GridCoords}
Directions ==
    {<<0, 0>>, <<1, 0>>, <<-1, 0>>, <<0, 1>>, <<0, -1>>, <<1, 1>>, <<-1, 2>>,
     <<2, -1>>}

\* One call of intersectRayHull on the inputs at hand.
HullIntersect ==
    /\ hullAnswer.status = "pending"
    /\ hullAnswer' = intersectRayHull(hullQuery.origin, hullQuery.dir,
                                      hullQuery.hull, hullQuery.ignoreIndex)
    /\ UNCHANGED <<hullQuery, lifeVars, traceVars>>

\* ------------------------------------------------ render, section 6
\* The geometry of a frame (where the hull is, what each ray meets) is an
\* input: every outcome of each intersection and refraction is tried.
\* Alpha values are integers, AlphaOne standing for 1.0.
AlphaOne == 10 * 100
AlphaFloor == AlphaOne \div 100
SpectrumLength == 7
\* Frames traced in one behaviour.
MaxTraceFrames == 3

\* The alpha below which the main white beam is not drawn (0.001).
BeamFloor == AlphaOne \div 1000

\* A faulty variant of smoothAlpha that goes to the target at once, which
\* C28 must reject.
smoothAlpha_instant(a, target) == target

\* globalAlpha + (targetAlpha - globalAlpha) * 0.1, which is
\* 0.9 * globalAlpha + 0.1 * targetAlpha, rounded down.
smoothAlpha(a, target) == (9 * a + target) \div 10

\* A faulty variant of the head of section 6 that enters the band loop on
\* globalAlpha alone, which C13 must reject.
traceFrame_alphaOnly(hit) ==
    /\ trPc = "idle"
    /\ traceFrames < MaxTraceFrames
    /\ entryHit' = hit
    /\ globalAlpha' = smoothAlpha(globalAlpha, IF hit THEN AlphaOne ELSE 0)
    /\ activeBeams' = 1
    /\ mainBeam' = (globalAlpha' > BeamFloor)
    /\ bandBeams' = 0
    /\ sp' = 0
    /\ met' = ""
    /\ trPc' = IF globalAlpha' > AlphaFloor THEN "bands" ELSE "dust"
    /\ UNCHANGED <<depth, currentAlpha, traceFrames, lifeVars>>

\* The head of section 6 for a frame whose primary ray hits the hull or not:
\* globalAlpha is smoothed, the main beam is pushed to activeBeams and drawn
\* when globalAlpha > 0.001, and the band loop is entered when
\* entryHit && globalAlpha > 0.01.
traceFrame(hit) ==
    /\ trPc = "idle"
    /\ traceFrames < MaxTraceFrames
    /\ entryHit' = hit
    /\ globalAlpha' = smoothAlpha(globalAlpha, IF hit THEN AlphaOne ELSE 0)
    /\ activeBeams' = 1
    /\ mainBeam' = (globalAlpha' > BeamFloor)
    /\ bandBeams' = 0
    /\ sp' = 0
    /\ met' = ""
    /\ trPc' = IF hit /\ globalAlpha' > AlphaFloor THEN "bands" ELSE "dust"
    /\ UNCHANGED <<depth, currentAlpha, traceFrames, lifeVars>>

\* ---- the primary ray
sub(v1, v2) == <<v1[1] - v2[1], v1[2] - v2[2]>>
Abs(n) == IF n < 0 THEN -n ELSE n

\* len(v) for the vectors used here, whose length is a whole number.
len(v) ==
    CHOOSE l \in 0..(Abs(v[1]) + Abs(v[2])) : l * l = v[1] * v[1] + v[2] * v[2]

\* A faulty variant of norm that answers a unit vector for the zero vector,
\* which C14 must reject.
norm_unitForZero(v) ==
    LET l == len(v) IN
    IF l > 0 THEN <<v[1] \div l, v[2] \div l>> ELSE <<1, 0>>

\* norm(v): v scaled by 1 / len(v), the zero vector when len(v) is 0.
norm(v) ==
    LET l == len(v) IN
    IF l > 0 THEN <<v[1] \div l, v[2] \div l>> ELSE <<0, 0>>

\* Hull outlines of the projected mesh, which is centred on the canvas centre
\* (device pixel ratio 1, canvas 800 x 600), and positions of the smoothed
\* pointer: the centre itself and points level with it or straight above
\* and below it, outside and inside the outline.
SceneHulls ==
    {<<<<300, 200>>, <<500, 200>>, <<500, 400>>, <<300, 400>>>>,
     <<<<400, 150>>, <<550, 400>>, <<250, 400>>>>}
SmoothedPointers ==
    {<<400, 300>>, <<100, 300>>, <<780, 300>>, <<400, 550>>, <<400, 250>>}

\* The entry test of a frame with the smoothed pointer at m and the outline
\* hull: mouseVec = center - mouse, rayDir = norm(mouseVec), entryHit =
\* intersectRayHull(mouse, rayDir, hull, -1); the head of section 6 follows.
primaryRay(m, hull) ==
    LET center == <<width \div 2, height \div 2>>
        rayDir == norm(sub(center, m))
        mouse == [x |-> m[1], y |-> m[2], q |-> 1]
        hit == intersectRayHull(mouse, rayDir, hull, -1)
    IN  /\ trPc = "idle"
        /\ traceFrames < MaxTraceFrames
        /\ hullQuery' = [origin |-> mouse, dir |-> rayDir, hull |-> hull,
                         ignoreIndex |-> -1]
        /\ hullAnswer' = hit
        /\ traceFrame(hit.status = "hit")

\* What one pass of the band loop can meet.
BandOutcomes == {"tirIn", "noExit", "tirOut", "out"}

\* One pass of "for (sp = 0; sp < SPECTRUM.length; sp++)": dIn null and
\* exitHit null skip the band, dOut null ends it after the internal beam, and
\* otherwise traceSpectralRay is called with maxBounces and globalAlpha.
spectralBand(outcome) ==
    /\ trPc = "bands"
    /\ IF sp >= SpectrumLength
       THEN /\ trPc' = "dust"
            /\ UNCHANGED <<sp, depth, currentAlpha, bandBeams>>
       ELSE IF outcome = "out"
       THEN /\ trPc' = "trace"
            /\ depth' = currentQuality.maxBounces
            /\ currentAlpha' = globalAlpha
            /\ bandBeams' = 0
            /\ UNCHANGED sp
       ELSE /\ sp' = sp + 1
            /\ bandBeams' = 0
            /\ UNCHANGED <<trPc, depth, currentAlpha>>
    /\ met' = IF sp >= SpectrumLength THEN "" ELSE outcome
    /\ UNCHANGED <<globalAlpha, entryHit, activeBeams, traceFrames, mainBeam,
                   lifeVars>>

\* What one call of traceSpectralRay can meet past its guard: no target, a
\* wall, or the hull with dIn null, exitHit null, dOut null or a way out.
TraceOutcomes == {"none", "wall", "hullTir", "hullNoExit", "hullTirOut", "hullOut"}

\* A faulty variant of the recursive call that keeps the depth after a wall
\* hit, which C9 must reject.
recursion_sameDepth(outcome, d, a) ==
    IF outcome = "wall" THEN [status |-> "call", depth |-> d, alpha |-> (a * 8) \div 10]
    ELSE IF outcome = "hullTir" THEN [status |-> "call", depth |-> d - 1, alpha |-> (a * 6) \div 10]
    ELSE IF outcome = "hullOut" THEN [status |-> "call", depth |-> d - 1, alpha |-> (a * 9) \div 10]
    ELSE Null

\* The call traceSpectralRay makes on itself for an outcome: [depth, alpha],
\* or Null when it returns without one.
recursion(outcome, d, a) ==
    IF outcome = "wall" THEN [status |-> "call", depth |-> d - 1, alpha |-> (a * 8) \div 10]
    ELSE IF outcome = "hullTir" THEN [status |-> "call", depth |-> d - 1, alpha |-> (a * 6) \div 10]
    ELSE IF outcome = "hullOut" THEN [status |-> "call", depth |-> d - 1, alpha |-> (a * 9) \div 10]
    ELSE Null

\* One call of traceSpectralRay(startPoint, direction, band, depth,
\* currentAlpha).  Its recursive call is the last thing it does, so the next
\* call is the next step; a return goes back to the band loop.
traceSpectralRay(outcome) ==
    /\ trPc = "trace"
    /\ IF depth <= 0 \/ currentAlpha < AlphaFloor \/ outcome = "none"
       THEN /\ trPc' = "bands"
            /\ sp' = sp + 1
            /\ UNCHANGED <<depth, currentAlpha, activeBeams, bandBeams>>
       ELSE LET r == recursion(outcome, depth, currentAlpha) IN
            /\ activeBeams' = activeBeams + 1
            /\ bandBeams' = bandBeams + 1
            /\ IF r.status = "call"
               THEN /\ depth' = r.depth
                    /\ currentAlpha' = r.alpha
                    /\ UNCHANGED <<trPc, sp>>
               ELSE /\ trPc' = "bands"
                    /\ sp' = sp + 1
                    /\ UNCHANGED <<depth, currentAlpha>>
    /\ met' = IF depth <= 0 \/ currentAlpha < AlphaFloor THEN "guard" ELSE outcome
    /\ UNCHANGED <<globalAlpha, entryHit, traceFrames, mainBeam, lifeVars>>

\* Section 7 and the end of render: the dust is drawn against activeBeams and
\* the next frame is requested.
traceFrameEnd ==
    /\ trPc = "dust"
    /\ trPc' = "idle"
    /\ traceFrames' = traceFrames + 1
    /\ met' = ""
    /\ UNCHANGED <<globalAlpha, entryHit, sp, depth, currentAlpha, activeBeams,
                   bandBeams, mainBeam, lifeVars>>

\* ------------------------------------------------- life cycle: Spec
\* The tracer before its first frame, and no intersectRayHull call at hand.
TraceIdle ==
    /\ trPc = "idle" /\ globalAlpha = 0 /\ entryHit = FALSE /\ sp = 0
    /\ depth = 0 /\ currentAlpha = 0 /\ activeBeams = 0 /\ bandBeams = 0
    /\ traceFrames = 0 /\ met = "" /\ mainBeam = FALSE
\* The page of a scene that started: canvas and 2D context were there.
PageStarted ==
    page = [canvas |-> TRUE, context |-> TRUE, warnings |-> 0,
            fallback |-> FALSE, started |-> TRUE]
\* No detectQualityTier call at hand.
TierIdle ==
    /\ tierQuery = [isMobile |-> FALSE, innerWidth |-> 0,
                    prefersReducedMotion |-> FALSE]
    /\ tierAnswer = "idle"
HullIdle ==
    /\ hullQuery = [origin |-> [x |-> 0, y |-> 0, q |-> 1], dir |-> <<0, 0>>,
                    hull |-> <<>>, ignoreIndex |-> -1]
    /\ hullAnswer = [status |-> "pending"]

\* ------------------------------------------------- generateGeometry: SpecMesh
\* The icosahedron: BASE_VERTS has twelve entries, BASE_FACES these twenty.
BaseVertCount == 12
BASE_FACES ==
    << <<0, 11, 5>>, <<0, 5, 1>>, <<0, 1, 7>>, <<0, 7, 10>>, <<0, 10, 11>>,
       <<1, 5, 9>>, <<5, 11, 4>>, <<11, 10, 2>>, <<10, 7, 6>>, <<7, 1, 8>>,
       <<3, 9, 4>>, <<3, 4, 2>>, <<3, 2, 6>>, <<3, 6, 8>>, <<3, 8, 9>>,
       <<4, 9, 5>>, <<2, 4, 11>>, <<6, 2, 10>>, <<8, 6, 7>>, <<9, 8, 1>> >>

\* The levels the quality tiers ask for.
SubdivisionLevels == {QualityTier[t].subdivisions : t \in TierNames}

\* The key of the memo: the two indices, smaller first.
edgeKey(i1, i2) == IF i1 < i2 THEN <<i1, i2>> ELSE <<i2, i1>>

\* A faulty variant of getMidPointIndex without the memo, which C21 must
\* reject.
getMidPointIndex_noMemo(st, i1, i2) ==
    [idx |-> st.n, n |-> st.n + 1, cache |-> st.cache]

\* A faulty variant of getMidPointIndex whose key keeps the order of its
\* arguments, which C22 must reject.
getMidPointIndex_orderedKey(st, i1, i2) ==
    LET key == <<i1, i2>> IN
    IF key \in DOMAIN st.cache
    THEN [idx |-> st.cache[key], n |-> st.n, cache |-> st.cache]
    ELSE [idx |-> st.n, n |-> st.n + 1,
          cache |-> [k \in DOMAIN st.cache \cup {key} |->
                        IF k = key THEN st.n ELSE st.cache[k]]]

\* getMidPointIndex(i1, i2) with newVerts of length st.n and midPointCache
\* st.cache: the index returned, and both as the call leaves them.
getMidPointIndex(st, i1, i2) ==
    LET key == edgeKey(i1, i2) IN
    IF key \in DOMAIN st.cache
    THEN [idx |-> st.cache[key], n |-> st.n, cache |-> st.cache]
    ELSE [idx |-> st.n, n |-> st.n + 1,
          cache |-> [k \in DOMAIN st.cache \cup {key} |->
                        IF k = key THEN st.n ELSE st.cache[k]]]

EmptyCache == [k \in {} |-> 0]

\* The distinct edges of a list of faces.
EdgesOf(faces) ==
    UNION {{edgeKey(faces[i][1], faces[i][2]), edgeKey(faces[i][2], faces[i][3]),
            edgeKey(faces[i][3], faces[i][1])} : i \in 1..Len(faces)}

\* One iteration of the loop over currentFaces in subdivide.
subdivideFace ==
    /\ passes < subdivisionLevel
    /\ faceIndex <= Len(mesh.f)
    /\ LET face == mesh.f[faceIndex]
           i0 == face[1]
           i1 == face[2]
           i2 == face[3]
           a == getMidPointIndex([n |-> newVerts, cache |-> midPointCache], i0, i1)
           b == getMidPointIndex([n |-> a.n, cache |-> a.cache], i1, i2)
           c == getMidPointIndex([n |-> b.n, cache |-> b.cache], i2, i0)
       IN  /\ newVerts' = c.n
           /\ midPointCache' = c.cache
           /\ newFaces' = newFaces \o << <<i0, a.idx, c.idx>>, <<i1, b.idx, a.idx>>,
                                        <<i2, c.idx, b.idx>>, <<a.idx, b.idx, c.idx>> >>
    /\ faceIndex' = faceIndex + 1
    /\ UNCHANGED <<subdivisionLevel, passes, mesh, before>>

\* subdivide returns { v: newVerts, f: newFaces } and the loop of
\* generateGeometry takes it as the mesh of the next pass.
subdivideReturn ==
    /\ passes < subdivisionLevel
    /\ faceIndex > Len(mesh.f)
    /\ mesh' = [v |-> newVerts, f |-> newFaces]
    /\ before' = [v |-> mesh.v, f |-> Len(mesh.f),
                  e |-> Cardinality(EdgesOf(mesh.f))]
    /\ passes' = passes + 1
    /\ newVerts' = newVerts
    /\ newFaces' = <<>>
    /\ midPointCache' = EmptyCache
    /\ faceIndex' = 1
    /\ UNCHANGED subdivisionLevel

\* generateGeometry(level) up to its first pass.
generateGeometry(level) ==
    /\ subdivisionLevel = level
    /\ passes = 0
    /\ mesh = [v |-> BaseVertCount, f |-> BASE_FACES]
    /\ newVerts = BaseVertCount
    /\ newFaces = <<>>
    /\ midPointCache = EmptyCache
    /\ faceIndex = 1
    /\ before = [v |-> 0, f |-> 0, e |-> 0]

\* No generateGeometry call at hand.
GeomIdle == generateGeometry(0)

\* ------------------------------------------------- getConvexHull: SpecConvex
crossProduct(o, a, b) ==
    (a[1] - o[1]) * (b[2] - o[2]) - (a[2] - o[2]) * (b[1] - o[1])

\* The comparator of the sort: by x, then by y.
Before(a, b) == IF a[1] = b[1] THEN a[2] < b[2] ELSE a[1] < b[1]

RECURSIVE insertSorted(_, _)
insertSorted(srt, q) ==
    IF srt = <<>> THEN <<q>>
    ELSE IF Before(q, Head(srt)) THEN <<q>> \o srt
    ELSE <<Head(srt)>> \o insertSorted(Tail(srt), q)

\* points.slice().sort(...)
RECURSIVE sortPoints(_)
sortPoints(pts) ==
    IF pts = <<>> THEN <<>>
    ELSE insertSorted(sortPoints(SubSeq(pts, 1, Len(pts) - 1)), pts[Len(pts)])

reversed(sq) == [i \in 1..Len(sq) |-> sq[Len(sq) + 1 - i]]

\* The inner while loop: pop while the last two of the chain and q do not
\* make a left turn.
RECURSIVE popWhile(_, _)
popWhile(chain, q) ==
    IF Len(chain) >= 2 /\ crossProduct(chain[Len(chain) - 1], chain[Len(chain)], q) <= 0
    THEN popWhile(SubSeq(chain, 1, Len(chain) - 1), q)
    ELSE chain

\* One of the two for loops: the chain over srt from index i on.
RECURSIVE buildChain(_, _, _)
buildChain(srt, i, chain) ==
    IF i > Len(srt) THEN chain
    ELSE buildChain(srt, i + 1, Append(popWhile(chain, srt[i]), srt[i]))

\* A faulty variant of getConvexHull that builds the chains over the points
\* as given, which C23 must reject.
getConvexHull_unsorted(pts) ==
    IF Len(pts) <= 3 THEN pts
    ELSE LET lower == buildChain(pts, 1, <<>>)
             upper == buildChain(reversed(pts), 1, <<>>)
         IN  SubSeq(lower, 1, Len(lower) - 1) \o SubSeq(upper, 1, Len(upper) - 1)

getConvexHull(pts) ==
    IF Len(pts) <= 3 THEN pts
    ELSE LET sorted == sortPoints(pts)
             lower == buildChain(sorted, 1, <<>>)
             upper == buildChain(reversed(sorted), 1, <<>>)
         IN  SubSeq(lower, 1, Len(lower) - 1) \o SubSeq(upper, 1, Len(upper) - 1)

\* The calls checked: up to MaxPoints points, repeats allowed, out of seven
\* points of a 3 x 3 grid.
MaxPoints == 5
HullInputPoints ==
    {<<0, 0>>, <<1, 0>>, <<2, 0>>, <<0, 2>>, <<1, 1>>, <<2, 2>>, <<1, 2>>}

RECURSIVE PointLists(_)
PointLists(n) ==
    IF n = 0 THEN {<<>>}
    ELSE LET shorter == PointLists(n - 1)
         IN  shorter \cup {Append(l, q) : l \in {k \in shorter : Len(k) = n - 1},
                                          q \in HullInputPoints}

ConvexHull ==
    /\ convexHull.status = "pending"
    /\ convexHull' = [status |-> "done", hull |-> getConvexHull(points)]
    /\ UNCHANGED points

\* No getConvexHull call at hand.
ConvexIdle ==
    /\ points = <<>>
    /\ convexHull = [status |-> "idle"]

\* ------------------------------------------------- refract2D: SpecRefract
\* Vectors are pairs of whole numbers over a common scale: a unit vector has
\* length UnitScale.  Of the refractive indices only the ratio n1 / n2
\* enters, so they are whole numbers too.
UnitScale == 5
add(v1, v2) == <<v1[1] + v2[1], v1[2] + v2[2]>>
mul(v, k) == <<v[1] * k, v[2] * k>>
dot(v1, v2) == v1[1] * v2[1] + v1[2] * v2[2]

\* Math.sqrt on whole numbers: the largest r in lo..hi with r * r <= n.
RECURSIVE sqrtBetween(_, _, _)
sqrtBetween(n, lo, hi) ==
    IF lo >= hi THEN lo
    ELSE LET mid == (lo + hi + 1) \div 2
         IN  IF mid * mid <= n THEN sqrtBetween(n, mid, hi)
             ELSE sqrtBetween(n, lo, mid - 1)
sqrt(n) == sqrtBetween(n, 0, Min(n, 2^15))

\* norm(v) as the pair of v and its length l, standing for v / l; the zero
\* vector when the length is 0.
normOver(v) ==
    LET l == sqrt(dot(v, v)) IN
    IF l > 0 THEN [status |-> "dir", v |-> v, l |-> l]
    ELSE [status |-> "dir", v |-> <<0, 0>>, l |-> 1]

\* A faulty variant of refract2D that gives up at the critical angle
\* already, which C24 must reject.
refract2D_nullAtOne(dir, normal, n1, n2) ==
    LET c0 == -dot(dir, normal)
        N == IF c0 < 0 THEN mul(normal, -1) ELSE normal
        cosI == -dot(dir, N)
        one == n2 * n2 * UnitScale^4
        sinT2 == n1 * n1 * (UnitScale^4 - cosI * cosI)
    IN  IF sinT2 >= one THEN Null
        ELSE LET cosT == sqrt(one - sinT2)
             IN  normOver(add(mul(dir, n1 * UnitScale * UnitScale),
                              mul(N, n1 * cosI - cosT)))

\* refract2D(dir, normal, n1, n2).  cosI is held over UnitScale^2, eta is
\* n1 / n2, sinT2 and 1.0 are held over n2^2 * UnitScale^4, cosT over
\* n2 * UnitScale^2 and the vector handed to norm over n2 * UnitScale^3.
refract2D(dir, normal, n1, n2) ==
    LET c0 == -dot(dir, normal)
        N == IF c0 < 0 THEN mul(normal, -1) ELSE normal
        cosI == -dot(dir, N)
        one == n2 * n2 * UnitScale^4
        sinT2 == n1 * n1 * (UnitScale^4 - cosI * cosI)
    IN  IF sinT2 > one THEN Null
        ELSE LET cosT == sqrt(one - sinT2)
             IN  normOver(add(mul(dir, n1 * UnitScale * UnitScale),
                              mul(N, n1 * cosI - cosT)))

\* The unit vectors with whole coordinates over UnitScale.
UnitVectors ==
    {v \in (-UnitScale..UnitScale) \X (-UnitScale..UnitScale) :
        dot(v, v) = UnitScale * UnitScale}

\* Refractive indices, as ratios of these.
Indices == {3, 4, 5}

\* The calls whose cosT is a ratio of whole numbers, and those without
\* transmission.
RefractCalls ==
    {q \in [dir : UnitVectors, normal : UnitVectors, n1 : Indices, n2 : Indices] :
        LET c == dot(q.dir, q.normal)
            rad == q.n2 * q.n2 * UnitScale^4 - q.n1 * q.n1 * (UnitScale^4 - c * c)
        IN  rad < 0 \/ sqrt(rad) * sqrt(rad) = rad}

Refract ==
    /\ refractAnswer.status = "pending"
    /\ refractAnswer' = refract2D(refractQuery.dir, refractQuery.normal,
                                  refractQuery.n1, refractQuery.n2)
    /\ UNCHANGED refractQuery

\* No refract2D call at hand.
RefractIdle ==
    /\ refractQuery = [dir |-> <<0, 0>>, normal |-> <<0, 0>>, n1 |-> 1, n2 |-> 1]
    /\ refractAnswer = [status |-> "idle"]

\* ------------------------------------------------- page interactions: SpecPage
\* The service items of the page.
NumServiceItems == 5
ServiceItems == 1..NumServiceItems

\* A faulty variant of toggleServiceItem that leaves the item expanded
\* before as it is, which C25 must reject.
toggleServiceItem_keepsOthers(item) ==
    IF item \in expanded
    THEN /\ expanded' = expanded \ {item}
         /\ hovered' = hovered \ {item}
         /\ ariaExpanded' = ariaExpanded \ {item}
         /\ played' = played \ {item}
         /\ currentlyExpanded' = NULL
    ELSE /\ expanded' = expanded \cup {item}
         /\ hovered' = hovered \cup {item}
         /\ ariaExpanded' = ariaExpanded \cup {item}
         /\ played' = played \cup {item}
         /\ currentlyExpanded' = item

\* toggleServiceItem of one item: close the item remembered when it is
\* another one, then toggle this one.
toggleServiceItem(item) ==
    LET isExpanded == item \in expanded
        closing == IF currentlyExpanded # NULL /\ currentlyExpanded # item
                   THEN {currentlyExpanded} ELSE {}
    IN  IF isExpanded
        THEN /\ expanded' = (expanded \ closing) \ {item}
             /\ hovered' = (hovered \ closing) \ {item}
             /\ ariaExpanded' = (ariaExpanded \ closing) \ {item}
             /\ played' = (played \ closing) \ {item}
             /\ currentlyExpanded' = NULL
        ELSE /\ expanded' = (expanded \ closing) \cup {item}
             /\ hovered' = (hovered \ closing) \cup {item}
             /\ ariaExpanded' = (ariaExpanded \ closing) \cup {item}
             /\ played' = (played \ closing) \cup {item}
             /\ currentlyExpanded' = item

\* A faulty variant of toggleMobileMenu that locks scrolling when the menu
\* was open, which C26 must reject.
toggleMobileMenu_lockOnClose ==
    LET isOpen == toggleActive IN
    /\ toggleActive' = ~toggleActive
    /\ overlayActive' = ~overlayActive
    /\ bodyOverflow' = IF isOpen THEN "hidden" ELSE ""

toggleMobileMenu ==
    LET isOpen == toggleActive IN
    /\ toggleActive' = ~toggleActive
    /\ overlayActive' = ~overlayActive
    /\ bodyOverflow' = IF isOpen THEN "" ELSE "hidden"

\* A click on a service item.
ItemClick(item) ==
    /\ toggleServiceItem(item)
    /\ UNCHANGED menuVars

\* The keys pressed, and where: on a service item or elsewhere (NULL).  The
\* event reaches the item's listener first and the document's after it.
Keys == {"Enter", " ", "Escape", "Tab"}
KeyDown(target, key) ==
    /\ IF target # NULL /\ key \in {"Enter", " "}
       THEN toggleServiceItem(target)
       ELSE UNCHANGED accordionVars
    /\ IF key = "Escape" /\ toggleActive
       THEN toggleMobileMenu /\ UNCHANGED navItemActive
       ELSE UNCHANGED menuVars

MouseEnter(item) ==
    /\ hovered' = IF item \notin expanded THEN hovered \cup {item} ELSE hovered
    /\ UNCHANGED <<expanded, ariaExpanded, played, currentlyExpanded, menuVars>>

MouseLeave(item) ==
    /\ hovered' = IF item \notin expanded THEN hovered \ {item} ELSE hovered
    /\ UNCHANGED <<expanded, ariaExpanded, played, currentlyExpanded, menuVars>>

\* A click on the hamburger button or on the close button of the overlay.
MenuButtonClick ==
    /\ toggleMobileMenu
    /\ UNCHANGED <<navItemActive, accordionVars>>

\* A click on a link of the mobile menu.
NavLinkClick ==
    /\ IF toggleActive
       THEN toggleMobileMenu
       ELSE UNCHANGED <<toggleActive, overlayActive, bodyOverflow>>
    /\ UNCHANGED <<navItemActive, accordionVars>>

\* A click on the dropdown toggle of the mobile menu.
DropdownClick ==
    /\ navItemActive' = ~navItemActive
    /\ UNCHANGED <<toggleActive, overlayActive, bodyOverflow, accordionVars>>

\* The page as it is served: nothing expanded, the menu closed.
PageIdle ==
    /\ expanded = {} /\ hovered = {} /\ ariaExpanded = {} /\ played = {}
    /\ currentlyExpanded = NULL
    /\ toggleActive = FALSE /\ overlayActive = FALSE
    /\ bodyOverflow = "" /\ navItemActive = FALSE

PureIdle ==
    /\ GeomIdle
    /\ ConvexIdle
    /\ RefractIdle
    /\ PageIdle

Init ==
    /\ \E isMobile \in BOOLEAN, innerWidth \in InnerWidths, prm \in BOOLEAN,
          sz \in ContainerSizes :
           init(isMobile, innerWidth, prm, sz)
    /\ TraceIdle
    /\ PureIdle
    /\ HullIdle
    /\ PageStarted
    /\ TierIdle

Next ==
    \/ \E id \in pendingFrames : render(id)
       /\ UNCHANGED <<traceVars, hullVars, startVars, detectVars, pureVars>>
    \/ VisibilityChange
       /\ UNCHANGED <<traceVars, hullVars, startVars, detectVars, pureVars>>
    \/ handleResize
       /\ UNCHANGED <<traceVars, hullVars, startVars, detectVars, pureVars>>
    \/ \E sz \in ContainerSizes : resizeCallback(sz)
       /\ UNCHANGED <<traceVars, hullVars, startVars, detectVars, pureVars>>
    \/ ReducedMotionChange
       /\ UNCHANGED <<traceVars, hullVars, startVars, detectVars, pureVars>>
    \/ \E p \in PointerPositions : handleMouseMove(p)
       /\ UNCHANGED <<traceVars, hullVars, startVars, detectVars, pureVars>>
    \/ \E id \in FingerIds, p \in PointerPositions : TouchStart(id, p, TRUE)
       /\ UNCHANGED <<traceVars, hullVars, startVars, detectVars, pureVars>>
    \/ \E id \in FingerIds, p \in PointerPositions : TouchMove(id, p)
       /\ UNCHANGED <<traceVars, hullVars, startVars, detectVars, pureVars>>
    \/ \E id \in FingerIds, type \in {"touchend", "touchcancel"} : TouchEnd(id, type)
       /\ UNCHANGED <<traceVars, hullVars, startVars, detectVars, pureVars>>
    \/ beforeunload
       /\ UNCHANGED <<traceVars, hullVars, startVars, detectVars, pureVars>>
    \/ Tick
       /\ UNCHANGED <<traceVars, hullVars, startVars, detectVars, pureVars>>

Spec == Init /\ [][Next]_vars

\* ------------------------------------------------- the tracer: SpecTrace
TraceInit ==
    /\ \E isMobile \in BOOLEAN, innerWidth \in InnerWidths, prm \in BOOLEAN,
          sz \in ContainerSizes :
           init(isMobile, innerWidth, prm, sz)
    /\ TraceIdle
    /\ PureIdle
    /\ HullIdle
    /\ PageStarted
    /\ TierIdle

TraceNext ==
    \/ \E hit \in BOOLEAN : traceFrame(hit)
       /\ UNCHANGED <<hullVars, startVars, detectVars, pureVars>>
    \/ \E outcome \in BandOutcomes : spectralBand(outcome)
       /\ UNCHANGED <<hullVars, startVars, detectVars, pureVars>>
    \/ \E outcome \in TraceOutcomes : traceSpectralRay(outcome)
       /\ UNCHANGED <<hullVars, startVars, detectVars, pureVars>>
    \/ traceFrameEnd
       /\ UNCHANGED <<hullVars, startVars, detectVars, pureVars>>

SpecTrace == TraceInit /\ [][TraceNext]_vars

\* ------------------------------------------------- the primary ray: SpecPrimary
\* Frames of a scene constructed with reduced motion set (MINIMAL).
PrimaryInit ==
    /\ init(FALSE, 1280, TRUE, <<800, 600>>)
    /\ TraceIdle
    /\ PureIdle
    /\ HullIdle
    /\ PageStarted
    /\ TierIdle

PrimaryNext ==
    \/ \E m \in SmoothedPointers, hull \in SceneHulls : primaryRay(m, hull)
       /\ UNCHANGED <<startVars, detectVars, pureVars>>
    \/ \E outcome \in BandOutcomes : spectralBand(outcome)
       /\ UNCHANGED <<hullVars, startVars, detectVars, pureVars>>
    \/ \E outcome \in TraceOutcomes : traceSpectralRay(outcome)
       /\ UNCHANGED <<hullVars, startVars, detectVars, pureVars>>
    \/ traceFrameEnd
       /\ UNCHANGED <<hullVars, startVars, detectVars, pureVars>>

SpecPrimary == PrimaryInit /\ [][PrimaryNext]_vars

\* ------------------------------------------------- pointer and touch: SpecTouch
\* Client positions on the canvas (one of them within the padding) and
\* anywhere, and two fingers.
CanvasPoints == {<<5, 595>>, <<400, 300>>}
ClientPoints == CanvasPoints \cup {<<-10, 5000>>}
TouchFingerIds == {0, 1}

TouchInit ==
    /\ init(FALSE, 1280, FALSE, <<800, 600>>)
    /\ TraceIdle
    /\ PureIdle
    /\ HullIdle
    /\ PageStarted
    /\ TierIdle

TouchNext ==
    \/ \E p \in ClientPoints : handleMouseMove(p)
       /\ UNCHANGED <<traceVars, hullVars, startVars, detectVars, pureVars>>
    \/ \E id \in TouchFingerIds, p \in CanvasPoints : TouchStart(id, p, TRUE)
       /\ UNCHANGED <<traceVars, hullVars, startVars, detectVars, pureVars>>
    \/ \E id \in TouchFingerIds, p \in ClientPoints : TouchStart(id, p, FALSE)
       /\ UNCHANGED <<traceVars, hullVars, startVars, detectVars, pureVars>>
    \/ \E id \in TouchFingerIds, p \in ClientPoints : TouchMove(id, p)
       /\ UNCHANGED <<traceVars, hullVars, startVars, detectVars, pureVars>>
    \/ \E id \in TouchFingerIds, type \in {"touchend", "touchcancel"} :
          TouchEnd(id, type)
       /\ UNCHANGED <<traceVars, hullVars, startVars, detectVars, pureVars>>

SpecTouch == TouchInit /\ [][TouchNext]_vars

\* ------------------------------------------------- resize: SpecResize
\* What the container measures when the debounce timer fires, and where the
\* mouse moves.
ResizeSizes == {<<800, 600>>, <<1000, 700>>}
ResizePointers == {<<100, 100>>}

ResizeInit ==
    /\ init(FALSE, 1280, FALSE, <<800, 600>>)
    /\ TraceIdle
    /\ PureIdle
    /\ HullIdle
    /\ PageStarted
    /\ TierIdle

ResizeNext ==
    \/ handleResize
       /\ UNCHANGED <<traceVars, hullVars, startVars, detectVars, pureVars>>
    \/ \E sz \in ResizeSizes : resizeCallback(sz)
       /\ UNCHANGED <<traceVars, hullVars, startVars, detectVars, pureVars>>
    \/ \E p \in ResizePointers : handleMouseMove(p)
       /\ UNCHANGED <<traceVars, hullVars, startVars, detectVars, pureVars>>
    \/ smoothPointer
       /\ UNCHANGED <<traceVars, hullVars, startVars, detectVars, pureVars>>
    \/ ShortTick
       /\ UNCHANGED <<traceVars, hullVars, startVars, detectVars, pureVars>>

SpecResize == ResizeInit /\ [][ResizeNext]_vars

\* ------------------------------------------------- startup: SpecStartup
\* Pages with and without canvas and context, and what follows the startup.
StartupInit ==
    /\ \E canvas \in BOOLEAN, context \in BOOLEAN, isMobile \in BOOLEAN,
          innerWidth \in InnerWidths, prm \in BOOLEAN, sz \in ContainerSizes :
           initPrismScene(canvas, context, isMobile, innerWidth, prm, sz)
    /\ TraceIdle
    /\ PureIdle
    /\ HullIdle
    /\ TierIdle

StartupNext ==
    \/ \E id \in pendingFrames : render(id)
       /\ UNCHANGED <<traceVars, hullVars, startVars, detectVars, pureVars>>
    \/ VisibilityChange
       /\ UNCHANGED <<traceVars, hullVars, startVars, detectVars, pureVars>>
    \/ handleResize
       /\ UNCHANGED <<traceVars, hullVars, startVars, detectVars, pureVars>>
    \/ \E sz \in ContainerSizes : resizeCallback(sz)
       /\ UNCHANGED <<traceVars, hullVars, startVars, detectVars, pureVars>>
    \/ ReducedMotionChange
       /\ UNCHANGED <<traceVars, hullVars, startVars, detectVars, pureVars>>
    \/ beforeunload
       /\ UNCHANGED <<traceVars, hullVars, startVars, detectVars, pureVars>>
    \/ Tick
       /\ UNCHANGED <<traceVars, hullVars, startVars, detectVars, pureVars>>

SpecStartup == StartupInit /\ [][StartupNext]_vars

\* ------------------------------------------------- detectQualityTier: SpecTier
\* Viewport widths, on both sides of the breakpoint.
TierWidths ==
    {0, 320, 375, 400, 414, 600, 766, 767, 768, 769, 800, 1024, 1280, 1440,
     1920, 3840}

\* One call of detectQualityTier on the device at hand.
DetectTier ==
    /\ tierAnswer = "pending"
    /\ tierAnswer' = detectQualityTier(tierQuery.isMobile, tierQuery.innerWidth,
                                       tierQuery.prefersReducedMotion)
    /\ UNCHANGED <<tierQuery, lifeVars, traceVars, hullVars, startVars, pureVars>>

TierInit ==
    /\ init(FALSE, 1280, FALSE, <<800, 600>>)
    /\ TraceIdle
    /\ PureIdle
    /\ HullIdle
    /\ PageStarted
    /\ tierQuery \in [isMobile : BOOLEAN, innerWidth : TierWidths,
                       prefersReducedMotion : BOOLEAN]
    /\ tierAnswer = "pending"

TierNext == DetectTier

SpecTier == TierInit /\ [][TierNext]_vars

\* ------------------------------------------------- mesh: SpecMesh
MeshInit ==
    /\ init(FALSE, 1280, FALSE, <<800, 600>>)
    /\ TraceIdle
    /\ HullIdle
    /\ PageStarted
    /\ TierIdle
    /\ \E level \in SubdivisionLevels : generateGeometry(level)
    /\ ConvexIdle
    /\ RefractIdle
    /\ PageIdle

MeshNext ==
    \/ subdivideFace
       /\ UNCHANGED <<lifeVars, traceVars, hullVars, startVars, detectVars,
                      convexVars, refractVars, pageVars>>
    \/ subdivideReturn
       /\ UNCHANGED <<lifeVars, traceVars, hullVars, startVars, detectVars,
                      convexVars, refractVars, pageVars>>

SpecMesh == MeshInit /\ [][MeshNext]_vars

\* ------------------------------------------------- convex hull: SpecConvex
ConvexInit ==
    /\ init(FALSE, 1280, FALSE, <<800, 600>>)
    /\ TraceIdle
    /\ HullIdle
    /\ PageStarted
    /\ TierIdle
    /\ GeomIdle
    /\ RefractIdle
    /\ PageIdle
    /\ points \in PointLists(MaxPoints)
    /\ convexHull = [status |-> "pending"]

ConvexNext ==
    ConvexHull
    /\ UNCHANGED <<lifeVars, traceVars, hullVars, startVars, detectVars, geomVars,
                   refractVars, pageVars>>

SpecConvex == ConvexInit /\ [][ConvexNext]_vars

\* ------------------------------------------------- refraction: SpecRefract
RefractInit ==
    /\ init(FALSE, 1280, FALSE, <<800, 600>>)
    /\ TraceIdle
    /\ HullIdle
    /\ PageStarted
    /\ TierIdle
    /\ GeomIdle
    /\ ConvexIdle
    /\ PageIdle
    /\ refractQuery \in RefractCalls
    /\ refractAnswer = [status |-> "pending"]

RefractNext ==
    Refract
    /\ UNCHANGED <<lifeVars, traceVars, hullVars, startVars, detectVars, geomVars,
                   convexVars, pageVars>>

SpecRefract == RefractInit /\ [][RefractNext]_vars

\* ------------------------------------------------- page: SpecPage
PageInit ==
    /\ init(FALSE, 1280, FALSE, <<800, 600>>)
    /\ TraceIdle
    /\ HullIdle
    /\ PageStarted
    /\ TierIdle
    /\ GeomIdle
    /\ ConvexIdle
    /\ RefractIdle
    /\ PageIdle

PageNext ==
    \/ \E item \in ServiceItems : ItemClick(item)
       /\ UNCHANGED <<lifeVars, traceVars, hullVars, startVars, detectVars,
                      geomVars, convexVars, refractVars>>
    \/ \E target \in ServiceItems \cup {NULL}, key \in Keys : KeyDown(target, key)
       /\ UNCHANGED <<lifeVars, traceVars, hullVars, startVars, detectVars,
                      geomVars, convexVars, refractVars>>
    \/ \E item \in ServiceItems : MouseEnter(item)
       /\ UNCHANGED <<lifeVars, traceVars, hullVars, startVars, detectVars,
                      geomVars, convexVars, refractVars>>
    \/ \E item \in ServiceItems : MouseLeave(item)
       /\ UNCHANGED <<lifeVars, traceVars, hullVars, startVars, detectVars,
                      geomVars, convexVars, refractVars>>
    \/ MenuButtonClick
       /\ UNCHANGED <<lifeVars, traceVars, hullVars, startVars, detectVars,
                      geomVars, convexVars, refractVars>>
    \/ NavLinkClick
       /\ UNCHANGED <<lifeVars, traceVars, hullVars, startVars, detectVars,
                      geomVars, convexVars, refractVars>>
    \/ DropdownClick
       /\ UNCHANGED <<lifeVars, traceVars, hullVars, startVars, detectVars,
                      geomVars, convexVars, refractVars>>

SpecPage == PageInit /\ [][PageNext]_vars

\* ------------------------------------------------- intersectRayHull: SpecHull
HullInit ==
    /\ init(FALSE, 1280, FALSE, <<800, 600>>)
    /\ TraceIdle
    /\ PureIdle
    /\ \E h \in Hulls, o \in Origins, d \in Directions :
         \E ig \in -1..(Len(h) - 1) :
            hullQuery = [origin |-> o, dir |-> d, hull |-> h, ignoreIndex |-> ig]
    /\ hullAnswer = [status |-> "pending"]
    /\ PageStarted
    /\ TierIdle

HullNext == HullIntersect /\ UNCHANGED <<startVars, detectVars, pureVars>>

SpecHull == HullInit /\ [][HullNext]_vars

\* ================================================================ properties
\* The parameters a tier's mesh and pools are generated with.
GeneratedAt(tn) ==
    /\ currentQuality = QualityTier[tn]
    /\ meshSubdiv = QualityTier[tn].subdivisions
    /\ stars = QualityTier[tn].starCount
    /\ dust = QualityTier[tn].dustCount

\* A render step that ends an FPS window of at least 1000 ms with a measured
\* FPS below 25 while the latch is unset.
LowFirstSample ==
    /\ isPageVisible
    /\ fpsMonitor' # fpsMonitor
    /\ now - fpsMonitor.lastCheck >= FpsWindowMs
    /\ (fpsMonitor.frameCount + 1) * 1000 < FpsThreshold * (now - fpsMonitor.lastCheck)
    /\ ~fpsMonitor.downgraded

\* ----------------------------------------------------------------------- C1
\* C1 (Spec): the quality tier never moves upward in the order
\* HIGH > MEDIUM > LOW > MINIMAL: in every step of the life cycle (frames,
\* FPS samples, resizes, visibility changes, reduced-motion changes in
\* either direction) the tier after the step ranks at or below the tier
\* before it.
C1_TierNeverRises ==
    [][TierRank(currentTierName') <= TierRank(currentTierName)]_vars

\* The preference has been withdrawn again and the tier is still MINIMAL,
\* with no FPS downgrade involved.
C1_Witness ==
    /\ currentTierName = "MINIMAL"
    /\ ~reducedMotion
    /\ fpsDowngrades = 0
    /\ last = NoNote

\* ----------------------------------------------------------------------- C2
\* C2 (Spec): in one page view the FPS monitor calls downgradeQuality at
\* most once, whatever samples, hide/resume cycles, resizes and
\* reduced-motion changes follow the first downgrade.
C2_AtMostOneFpsDowngrade == fpsDowngrades <= 1

\* A later sample below the threshold has just found the latch set.
C2_Witness ==
    /\ last.by = "latched"
    /\ fpsDowngrades = 1
    /\ fpsMonitor.downgraded

\* ----------------------------------------------------------------------- C3
\* C3 as stated (Spec): a first low FPS sample steps the tier down by exactly
\* one level and regenerates mesh and pools at the new tier.  At MINIMAL
\* there is no lower level, so this fails.
C3_AlwaysOneLevelDown ==
    [][LowFirstSample =>
          /\ TierRank(currentTierName') = TierRank(currentTierName) - 1
          /\ GeneratedAt(currentTierName)']_vars

\* C3 amended (Spec): a first low FPS sample steps the tier down by one
\* level, or leaves it at MINIMAL when it is MINIMAL already; in the same
\* frame the latch is set and mesh and pools are regenerated with the
\* resulting tier's subdivision level and counts.
C3_OneLevelDownOrMinimal ==
    [][LowFirstSample =>
          /\ TierRank(currentTierName') = Max(TierRank(currentTierName) - 1, 0)
          /\ GeneratedAt(currentTierName)'
          /\ fpsMonitor'.downgraded]_vars

\* The FPS monitor has just taken a HIGH session to MEDIUM.
C3_Witness ==
    /\ last = Note("fps", "HIGH")
    /\ currentTierName = "MEDIUM"
    /\ meshSubdiv = 1 /\ stars = 100 /\ dust = 50

\* ----------------------------------------------------------------------- C4
\* C4 (Spec): while the page is hidden (a change to hidden handled, no
\* change to visible handled since) no frame request is pending, and no
\* step taken while it stays hidden renders a frame or requests one,
\* whatever resize, pointer, touch or reduced-motion events arrive.
C4_NoFrameWhileHidden ==
    /\ [](~isPageVisible => pendingFrames = {} /\ animationFrameId = NULL)
    /\ [][(~isPageVisible /\ ~isPageVisible') =>
             (fpsMonitor' = fpsMonitor /\ pendingFrames' = {})]_vars

\* Hidden, with time passed, a resize timer started and a finger down.
C4_Witness ==
    /\ ~isPageVisible
    /\ hiddenInWindow
    /\ timerDue # NoTimer
    /\ touchState.active

\* ----------------------------------------------------------------------- C5
\* C5 (Spec): at most one frame request is pending at any time, and it is the
\* one animationFrameId names, so render runs once per refresh callback and
\* is never re-entered.
C5_OnePendingFrame ==
    /\ Cardinality(pendingFrames) <= 1
    /\ pendingFrames # {} => pendingFrames = {animationFrameId}

\* The loop has been re-armed after a pause and holds exactly one request.
C5_Witness ==
    /\ last.by = "resume"
    /\ Cardinality(pendingFrames) = 1
    /\ fpsMonitor.frameCount > 0

C7_TeardownDetachesEverything ==
    /\ [](tornDown => (pendingFrames = {} /\ listeners \cap InitListeners = {}))
    /\ [][tornDown => UNCHANGED sceneVars]_vars

\* ----------------------------------------------------------------------- C8
\* C8 (Spec): a change of the reduced-motion preference to 'reduce', at any
\* tier, latch set or not, page visible or hidden, leaves within the same
\* step the tier at MINIMAL with mesh and both pools generated with
\* MINIMAL's parameters.
C8_ReduceForcesMinimal ==
    [][(~reducedMotion /\ reducedMotion') =>
          (currentTierName' = "MINIMAL" /\ GeneratedAt("MINIMAL")')]_vars

\* The preference has just changed to 'reduce' on a hidden page whose FPS
\* monitor had already taken it from HIGH to MEDIUM.
C8_Witness ==
    /\ last = Note("reducedMotion", "MEDIUM")
    /\ fpsMonitor.downgraded
    /\ ~isPageVisible
    /\ currentTierName = "MINIMAL"
    /\ stars = 25 /\ dust = 0 /\ meshSubdiv = 0

\* ----------------------------------------------------------------------- C9
\* C9 (SpecTrace): a chain of traceSpectralRay calls started with depth =
\* maxBounces ends.  Each call returns without a segment when depth <= 0 or
\* alpha < 0.01 (or nothing is hit), and otherwise pushes one segment and
\* either returns or makes one call with depth - 1 and alpha times 0.8, 0.6
\* or 0.9.  So depth stays in 0..maxBounces, a band adds at most maxBounces
\* segments and activeBeams holds at most 1 + 7 * maxBounces.
C9_TracerBounded ==
    /\ [](/\ depth \in 0..currentQuality.maxBounces
          /\ bandBeams <= currentQuality.maxBounces
          /\ trPc = "trace" => bandBeams + depth <= currentQuality.maxBounces
          /\ activeBeams <= 1 + SpectrumLength * currentQuality.maxBounces)
    /\ [][trPc = "trace" =>
            \/ /\ trPc' = "bands"
               /\ activeBeams' \in {activeBeams, activeBeams + 1}
               /\ (depth <= 0 \/ currentAlpha < AlphaFloor) => activeBeams' = activeBeams
            \/ /\ trPc' = "trace"
               /\ depth > 0 /\ currentAlpha >= AlphaFloor
               /\ activeBeams' = activeBeams + 1
               /\ depth' = depth - 1
               /\ currentAlpha' \in {(currentAlpha * 8) \div 10,
                                     (currentAlpha * 6) \div 10,
                                     (currentAlpha * 9) \div 10}]_vars

\* A HIGH frame in which every band used all its bounces.
C9_Witness ==
    /\ trPc = "dust"
    /\ currentTierName = "HIGH"
    /\ activeBeams = 1 + SpectrumLength * 4
    /\ depth = 0

\* ---------------------------------------------------------------------- C10
\* C10 as stated (SpecHull): intersectRayHull never returns a hit on the edge
\* passed as ignoreIndex, for every index from 0 to hull.length - 1.  An
\* ignoreIndex of 0 is replaced by -1, so edge 0 is not skipped and this
\* fails.
C10_IgnoredEdgeNeverHit ==
    (/\ hullAnswer.status = "hit"
     /\ hullQuery.ignoreIndex \in 0..(Len(hullQuery.hull) - 1))
        => hullAnswer.index # hullQuery.ignoreIndex

\* A tracer frame is under way or has been traced.
FrameTraced == trPc # "idle" \/ traceFrames > 0

\* ---------------------------------------------------------------------- C11
\* C11 as stated (SpecTrace): whenever refract2D returns null at one of its
\* four call sites, the tracer goes on with a reflected ray for that band,
\* that is, with a traceSpectralRay call.  Only the hull-entry refraction
\* inside traceSpectralRay does so; the other three sites drop the band, so
\* this fails.
C11_TirContinuesBand ==
    [][met' \in {"tirIn", "tirOut", "hullTir", "hullTirOut"} => trPc' = "trace"]_vars

\* ---------------------------------------------------------------------- C12
\* C12 as stated (SpecTrace): in every frame whose primary ray misses the
\* hull the main white beam is drawn.  It is drawn only when globalAlpha >
\* 0.001, which a miss frame at startup does not have, so this fails.
C12_MissBeamAlwaysDrawn == (FrameTraced /\ ~entryHit) => mainBeam

\* ---------------------------------------------------------------------- C13
\* C13 (SpecTrace): in a frame whose primary ray misses the hull the band
\* loop is not entered, whatever globalAlpha is: no refraction outcome is
\* met, traceSpectralRay is not called and activeBeams holds the main beam
\* only.
C13_MissSkipsDispersion ==
    (FrameTraced /\ ~entryHit) =>
        /\ trPc \in {"dust", "idle"}
        /\ met = ""
        /\ activeBeams = 1
        /\ bandBeams = 0

\* A miss frame that follows hit frames, globalAlpha still above 0.01.
C13_Witness ==
    /\ trPc = "dust"
    /\ ~entryHit
    /\ globalAlpha > AlphaFloor
    /\ traceFrames > 0

\* ---------------------------------------------------------------------- C14
\* The frame under way or just traced had the smoothed pointer at the canvas
\* centre.
PointerAtCentre ==
    /\ FrameTraced
    /\ hullQuery.origin = [x |-> width \div 2, y |-> height \div 2, q |-> 1]

\* C14 (SpecPrimary): with the smoothed pointer exactly at the canvas centre
\* the primary ray direction is the zero vector, the entry test answers
\* null, no band is traced and activeBeams holds the main beam only; the
\* frame goes on to its end, where the next one is requested; and such a
\* frame never raises globalAlpha and lowers it while it is above 0.
C14_CentreDegeneratesGracefully ==
    /\ [](PointerAtCentre =>
            /\ hullQuery.dir = <<0, 0>>
            /\ hullAnswer = Null
            /\ ~entryHit
            /\ trPc \in {"dust", "idle"}
            /\ met = ""
            /\ activeBeams = 1)
    /\ [][(PointerAtCentre' /\ trPc = "idle" /\ trPc' # "idle") =>
             /\ globalAlpha' <= globalAlpha
             /\ globalAlpha > 0 => globalAlpha' < globalAlpha]_vars

\* A frame with the pointer at the centre that follows hit frames: globalAlpha
\* is on its way down and still above 0.01.
C14_Witness ==
    /\ PointerAtCentre
    /\ trPc = "dust"
    /\ traceFrames > 0
    /\ globalAlpha > AlphaFloor

\* ---------------------------------------------------------------------- C15
\* C15 as stated (SpecStartup): on a page without the canvas element, or
\* whose canvas gives no 2D context, the scene has logged a warning, applied
\* the fallback background and started nothing.  Without the canvas element
\* no fallback background is applied, so this fails.
C15_FallbackWithoutCanvasOrContext ==
    ~page.started =>
        /\ page.warnings >= 1
        /\ page.fallback
        /\ listeners = {}
        /\ pendingFrames = {}
        /\ animationFrameId = NULL

\* ---------------------------------------------------------------------- C20
\* C20 (SpecTier): detectQualityTier answers MINIMAL when reduced motion is
\* preferred, whatever the device; otherwise LOW for a mobile user agent
\* with a viewport narrower than 768; otherwise MEDIUM for any other mobile
\* user agent; otherwise HIGH, small viewports included.
C20_TierPriority ==
    tierAnswer # "pending" =>
        tierAnswer =
            CASE tierQuery.prefersReducedMotion -> "MINIMAL"
              [] /\ ~tierQuery.prefersReducedMotion
                 /\ tierQuery.isMobile
                 /\ tierQuery.innerWidth < 768 -> "LOW"
              [] /\ ~tierQuery.prefersReducedMotion
                 /\ tierQuery.isMobile
                 /\ tierQuery.innerWidth >= 768 -> "MEDIUM"
              [] /\ ~tierQuery.prefersReducedMotion
                 /\ ~tierQuery.isMobile -> "HIGH"

\* A desktop with a small viewport gets HIGH.
C20_Witness ==
    /\ tierAnswer = "HIGH"
    /\ ~tierQuery.isMobile
    /\ tierQuery.innerWidth = 400

\* ---------------------------------------------------------------------- C16
\* C16 (Spec): at every point after init the star pool has the current
\* tier's starCount, the dust pool its dustCount, the mesh its subdivision
\* level and currentQuality is the current tier's record, through resizes,
\* FPS downgrades and reduced-motion changes; a scene constructed with
\* reduced motion set is MINIMAL with 25 stars, no dust, a bounce limit of 1
\* and smoke disabled.
C16_PoolsMatchTier ==
    /\ currentQuality = QualityTier[currentTierName]
    /\ stars = QualityTier[currentTierName].starCount
    /\ dust = QualityTier[currentTierName].dustCount
    /\ meshSubdiv = QualityTier[currentTierName].subdivisions
    /\ (last.by = "init" /\ reducedMotion) =>
          /\ currentTierName = "MINIMAL"
          /\ stars = 25 /\ dust = 0
          /\ currentQuality.maxBounces = 1
          /\ ~currentQuality.smokeEnabled

\* A resize has been handled after the FPS monitor took HIGH to MEDIUM.
C16_Witness ==
    /\ resizeTimeout /\ timerDue = NoTimer
    /\ fpsDowngrades = 1
    /\ currentTierName = "MEDIUM"
    /\ stars = 100 /\ dust = 50

\* ---------------------------------------------------------------------- C17
\* C17 as stated (SpecTouch): the pointer target always lies in the canvas
\* rectangle inset by the padding of 20.  handleTouchStart takes the touch
\* position as it is, so this fails.
C17_PointerInPaddedRect ==
    /\ Padding <= mouseX /\ mouseX <= width - Padding
    /\ Padding <= mouseY /\ mouseY <= height - Padding

\* ---------------------------------------------------------------------- C18
\* The fingers carrying the tracked identifier.
TrackedFingers ==
    {i \in 1..Len(fingers) : fingers[i].identifier = touchState.identifier}

\* A touch event (start, move, end or cancel) that leaves every finger with
\* the tracked identifier as it was, while a touch is tracked.
OtherFingerEvent ==
    /\ touchState.active
    /\ fingers' # fingers
    /\ \A i \in TrackedFingers :
          \E j \in 1..Len(fingers') : fingers'[j] = fingers[i]

\* C18 (SpecTouch): while a touch is tracked, touch events of other fingers
\* change neither the pointer target nor the tracked identifier, and
\* tracking is released only in a step that lifts or cancels a finger with
\* the tracked identifier.
C18_OnlyTrackedFingerCounts ==
    /\ [][OtherFingerEvent => UNCHANGED <<mouseX, mouseY, touchState>>]_vars
    /\ [][(touchState.active /\ ~touchState'.active) =>
             /\ Len(fingers') < Len(fingers)
             /\ \A j \in 1..Len(fingers') :
                   fingers'[j].identifier # touchState.identifier]_vars

\* Finger 0 is tracked where it came down; finger 1 has come down on the
\* canvas elsewhere.
C18_Witness ==
    /\ touchState = [active |-> TRUE, identifier |-> 0]
    /\ Len(fingers) = 2
    /\ fingers[1].identifier = 0 /\ fingers[1].clientX = 400
    /\ fingers[2].identifier = 1 /\ fingers[2].onCanvas /\ fingers[2].clientX = 5
    /\ mouseX = 400 /\ mouseY = 300

\* ---------------------------------------------------------------------- C19
\* The resize is handled: the pending timer is spent.
ResizeHandled == timerDue # NoTimer /\ timerDue' = NoTimer

BetweenPasses == faceIndex = 1 /\ newFaces = <<>>

\* Every edge of the faces belongs to exactly two of them.
EveryEdgeInTwoFaces(faces) ==
    LET sides(i) == {edgeKey(faces[i][1], faces[i][2]),
                     edgeKey(faces[i][2], faces[i][3]),
                     edgeKey(faces[i][3], faces[i][1])}
        fan == [v \in 0..(mesh.v - 1) |->
                   {i \in 1..Len(faces) :
                       faces[i][1] = v \/ faces[i][2] = v \/ faces[i][3] = v}]
    IN  \A i \in 1..Len(faces) :
           /\ Cardinality(sides(i)) = 3
           /\ \A e \in sides(i) :
                 Cardinality({j \in fan[e[1]] : e \in sides(j)}) = 2

\* C21 (SpecMesh): generation starts from 12 vertices and 20 faces; each
\* pass of subdivide returns four faces for every face and one new vertex
\* for every distinct edge of the mesh it was given; and between passes, for
\* the levels 0, 1 and 2, every edge of the mesh belongs to exactly two
\* faces.
C21_SubdivideCounts ==
    /\ passes = 0 => mesh.v = 12 /\ Len(mesh.f) = 20
    /\ passes > 0 =>
          /\ Len(mesh.f) = 4 * before.f
          /\ mesh.v = before.v + before.e
    /\ BetweenPasses => EveryEdgeInTwoFaces(mesh.f)

\* Two passes are through.
C21_Witness ==
    /\ subdivisionLevel = 2 /\ passes = 2 /\ BetweenPasses
    /\ before.f = 80 /\ before.e = 120
    /\ Len(mesh.f) = 320

\* ---------------------------------------------------------------------- C22
\* generateGeometry(2), the level of the HIGH tier, has returned from its
\* last pass.
LevelTwoDone ==
    /\ subdivisionLevel = QualityTier["HIGH"].subdivisions
    /\ subdivisionLevel = 2
    /\ passes = subdivisionLevel

\* C22 as stated (SpecMesh): generateGeometry(2) ends with 642 vertices and
\* 1280 faces.  Those are the counts of a third pass.
C22_LevelTwoIs642 ==
    LevelTwoDone => mesh.v = 642 /\ Len(mesh.f) = 1280

\* C22 amended (SpecMesh): generateGeometry(2), the level of the HIGH tier,
\* ends with 162 vertices and 320 faces.
C22_LevelTwoMesh ==
    LevelTwoDone => mesh.v = 162 /\ Len(mesh.f) = 320

C22_Witness ==
    /\ LevelTwoDone
    /\ before = [v |-> 42, f |-> 80, e |-> 120]
    /\ mesh.v = 162

\* ---------------------------------------------------------------------- C23
\* q lies on the segment from a to b (a = b allowed).
OnSegment(q, a, b) ==
    /\ crossProduct(a, b, q) = 0
    /\ Min(a[1], b[1]) <= q[1] /\ q[1] <= Max(a[1], b[1])
    /\ Min(a[2], b[2]) <= q[2] /\ q[2] <= Max(a[2], b[2])

Sign(n) == IF n > 0 THEN 1 ELSE IF n < 0 THEN -1 ELSE 0

\* The segments a-b and c-d have a point in common.
SegmentsMeet(a, b, c, d) ==
    \/ /\ Sign(crossProduct(a, b, c)) * Sign(crossProduct(a, b, d)) < 0
       /\ Sign(crossProduct(c, d, a)) * Sign(crossProduct(c, d, b)) < 0
    \/ OnSegment(c, a, b) \/ OnSegment(d, a, b)
    \/ OnSegment(a, c, d) \/ OnSegment(b, c, d)

\* Vertex i of polygon h, indices wrapping around.
Corner(h, i) == h[((i - 1) % Len(h)) + 1]

\* h is a simple closed polygon: at least three corners, all different,
\* neighbouring sides meeting in their common corner only and other sides
\* not at all.
SimplePolygon(h) ==
    /\ Len(h) >= 3
    /\ \A i, j \in 1..Len(h) : i # j => h[i] # h[j]
    /\ \A i \in 1..Len(h) :
          /\ ~OnSegment(Corner(h, i + 2), Corner(h, i), Corner(h, i + 1))
          /\ ~OnSegment(Corner(h, i), Corner(h, i + 1), Corner(h, i + 2))
    /\ \A i, j \in 1..Len(h) :
          (i < j /\ j # i + 1 /\ ~(i = 1 /\ j = Len(h))) =>
             ~SegmentsMeet(h[i], Corner(h, i + 1), h[j], Corner(h, j + 1))

\* q lies on a side of h, or strictly on one and the same side of all of
\* them.
OnOrInside(q, h) ==
    \/ \E i \in 1..Len(h) : OnSegment(q, h[i], Corner(h, i + 1))
    \/ /\ Len(h) >= 3
       /\ \/ \A i \in 1..Len(h) : crossProduct(h[i], Corner(h, i + 1), q) > 0
          \/ \A i \in 1..Len(h) : crossProduct(h[i], Corner(h, i + 1), q) < 0

\* The input has three points that are not on one line.
NotOnOneLine(pts) ==
    \E i, j, k \in 1..Len(pts) : crossProduct(pts[i], pts[j], pts[k]) # 0

\* The corners are input points and every input point is on or inside.
WrapsInput ==
    /\ \A i \in 1..Len(convexHull.hull) :
          \E k \in 1..Len(points) : convexHull.hull[i] = points[k]
    /\ \A k \in 1..Len(points) : OnOrInside(points[k], convexHull.hull)

\* C23 as stated (SpecConvex): for every input, fewer than four points,
\* collinear and repeated points included, getConvexHull returns a simple
\* closed polygon whose corners are input points and which has every input
\* point on or inside it.  No polygon exists for points on one line.
C23_AlwaysSimplePolygon ==
    convexHull.status = "done" =>
        WrapsInput /\ SimplePolygon(convexHull.hull)

\* C23 amended (SpecConvex): for every input the corners returned are input
\* points and every input point lies on a side of the result or inside it;
\* the result is a simple closed polygon whenever the input has three points
\* that are not on one line; otherwise it is the input itself (up to three
\* points) or the first and the last point in sorting order.
C23_HullWrapsInput ==
    convexHull.status = "done" =>
        /\ WrapsInput
        /\ NotOnOneLine(points) => SimplePolygon(convexHull.hull)
        /\ ~NotOnOneLine(points) =>
              IF Len(points) <= 3 THEN convexHull.hull = points
              ELSE convexHull.hull = <<sortPoints(points)[1],
                                       sortPoints(points)[Len(points)]>>

\* A repeated corner, a point on a side and a point inside: the hull is the
\* triangle.
C23_Witness ==
    /\ convexHull.status = "done"
    /\ points = <<<<1, 1>>, <<0, 0>>, <<2, 0>>, <<1, 0>>, <<1, 2>>>>
    /\ convexHull.hull = <<<<0, 0>>, <<2, 0>>, <<1, 2>>>>

\* ---------------------------------------------------------------------- C24
\* C24 (SpecRefract): for positive n1, n2 and unit vectors dir and normal,
\* refract2D returns null exactly when (n1/n2)^2 * (1 - cosI^2) > 1, cosI
\* being the cosine between dir and the normal as supplied or turned
\* around; otherwise it returns a direction of length 1; and unless dir
\* runs along the surface it returns the same for the normal and for the
\* normal turned around.
C24_NullExactlyBeyondCritical ==
    refractAnswer.status \in {"null", "dir"} =>
        LET q == refractQuery
            c == dot(q.dir, q.normal)
        IN  /\ refractAnswer = Null <=>
                  q.n1 * q.n1 * (UnitScale^4 - c * c) > q.n2 * q.n2 * UnitScale^4
            /\ refractAnswer # Null =>
                  dot(refractAnswer.v, refractAnswer.v) = refractAnswer.l * refractAnswer.l
            /\ LET turned == refract2D(q.dir, mul(q.normal, -1), q.n1, q.n2)
               IN  /\ turned = Null <=> refractAnswer = Null
                   /\ c # 0 => turned = refractAnswer

\* At the critical angle exactly (sin of incidence 3/5, n1 / n2 = 5/3), with
\* the normal pointing along the ray: the transmitted ray runs along the
\* surface.
C24_Witness ==
    /\ refractQuery = [dir |-> <<3, 4>>, normal |-> <<0, 5>>, n1 |-> 5, n2 |-> 3]
    /\ refractAnswer.status = "dir"
    /\ refractAnswer.v[2] = 0
    /\ refractAnswer.v[1] = refractAnswer.l

\* ---------------------------------------------------------------------- C25
\* C25 (SpecPage): at most one service item is expanded at any time, it is
\* the one toggleServiceItem remembers, and a click or an Enter or Space key
\* press that expands an item leaves no other item expanded.
C25_AtMostOneExpanded ==
    /\ [](/\ Cardinality(expanded) <= 1
          /\ expanded = IF currentlyExpanded = NULL THEN {} ELSE {currentlyExpanded}
          /\ ariaExpanded = expanded)
    /\ [][\A item \in ServiceItems :
             (item \notin expanded /\ item \in expanded') => expanded' = {item}]_vars

\* Item 2 is expanded and remembered; item 1 is hovered only.
C25_Witness ==
    /\ expanded = {2}
    /\ currentlyExpanded = 2
    /\ hovered = {1, 2}

\* ---------------------------------------------------------------------- C26
\* C26 (SpecPage): after any sequence of hamburger, close-button and
\* nav-link clicks and Escape key presses the body scroll is locked exactly
\* when the overlay is open, and the overlay is open exactly when the toggle
\* button is active.
C26_ScrollLockedIffMenuOpen ==
    /\ bodyOverflow = "hidden" <=> overlayActive
    /\ overlayActive <=> toggleActive
    /\ bodyOverflow \in {"", "hidden"}

\* The menu is open, scrolling locked.
C26_Witness ==
    /\ overlayActive /\ toggleActive
    /\ bodyOverflow = "hidden"
    /\ navItemActive

\* ---------------------------------------------------------------------- C27
\* C27 as stated (Spec): at a resume from hidden the FPS window starts
\* afresh, its reference time at the resume and its frame count at 0, so
\* that the next sample counts the frames rendered since the resume only.
\* handleVisibilityChange restarts the reference time alone.
C27_FreshWindowOnResume ==
    last.by = "resume" =>
        /\ fpsMonitor.lastCheck = now
        /\ fpsMonitor.frameCount = 0

\* ---------------------------------------------------------------------- C28
\* C28 (SpecTrace): globalAlpha is 0 before the first frame and within
\* [0, 1] always; the head of each frame moves it by a tenth of its distance
\* to the target, 1 on a hit and 0 on a miss (to within one unit of the
\* fixed point), so it does not reach a target more than ten units away in
\* one frame; nothing else in the frame changes it; and the band loop and
\* the tracer run only in frames where it exceeds 0.01.
C28_AlphaCrossfade ==
    /\ []((traceFrames = 0 /\ trPc = "idle") => globalAlpha = 0)
    /\ [](0 <= globalAlpha /\ globalAlpha <= AlphaOne)
    /\ [](trPc \in {"bands", "trace"} => entryHit /\ globalAlpha > AlphaFloor)
    /\ [][(trPc = "idle" /\ trPc' # "idle") =>
             LET target == IF entryHit' THEN AlphaOne ELSE 0
                 tenfold == 9 * globalAlpha + target
             IN  /\ 10 * globalAlpha' <= tenfold
                 /\ tenfold < 10 * globalAlpha' + 10
                 /\ Abs(target - globalAlpha) > 10 => globalAlpha' # target]_vars
    /\ [][trPc # "idle" => globalAlpha' = globalAlpha]_vars

\* A miss after a hit: globalAlpha is on its way back, a tenth down from
\* the tenth it had reached.
C28_Witness ==
    /\ trPc = "dust"
    /\ ~entryHit
    /\ traceFrames = 1
    /\ globalAlpha = (9 * (AlphaOne \div 10)) \div 10

\* ---------------------------------------------------------------------- C29
\* C29 (Spec): while the page is visible, from init to teardown, the frame
\* loop never stalls: the scene takes the page for visible exactly when the
\* document is, and then exactly one frame request is pending, the one
\* animationFrameId names, after every rendered frame and after every
\* resume, whatever visibility, resize, pointer, touch and reduced-motion
\* events come in between.
C29_FrameLoopNeverStalls ==
    ~tornDown =>
        /\ isPageVisible <=> ~docHidden
        /\ isPageVisible =>
              /\ animationFrameId # NULL
              /\ pendingFrames = {animationFrameId}

\* Back from a pause that held a whole second, with a resize waiting and the
\* scene downgraded: the request is there.
C29_Witness ==
    /\ last = Note("resume", "paused")
    /\ ~tornDown /\ ~docHidden
    /\ pendingFrames = {animationFrameId}
    /\ timerDue # NoTimer
    /\ fpsDowngrades = 1

\* ---------------------------------------------------------------------- C30
\* C30 as stated (SpecTouch): whenever a touch is tracked, the tracked
\* identifier is that of a finger which came down on the canvas and is still
\* down, so that tracking is inactive once every finger is lifted.
\* handleTouchStart tracks e.touches[0], the oldest finger on the page,
\* whose touchend the canvas never hears of when it came down elsewhere.
C30_TrackingAlwaysReleased ==
    /\ touchState.active =>
          \E i \in 1..Len(fingers) :
             /\ fingers[i].identifier = touchState.identifier
             /\ fingers[i].onCanvas
    /\ fingers = <<>> => ~touchState.active

====
